---- MODULE Spec2Model ----
(***************************************************************************)
(* CodeLens AI: the code-structure detector (pattern registry, classify,   *)
(* isComment, isEmptyLineInBlock), the context extractor (extract,         *)
(* getBlockRange, extractBlock) and the hover provider that composes them. *)
(*                                                                         *)
(* A line of text is a sequence of one-character strings; a document is a  *)
(* sequence of lines.  Line indices of the program are 0-based; line i of  *)
(* the program is document[i + 1] here.  Regular expressions are syntax    *)
(* trees interpreted by Ends, so a pattern matches a line exactly when the *)
(* JavaScript RegExp of the source matches the same characters.            *)
(***************************************************************************)
EXTENDS Integers, Sequences, FiniteSets, TLC

\* ---------------------------------------------------------------------------
\* Bounds of the model
\* ---------------------------------------------------------------------------
MaxLines == 3
MaxChar == 3

\* ---------------------------------------------------------------------------
\* Characters
\* ---------------------------------------------------------------------------
LowerChars ==
  {"a", "b", "c", "d", "e", "f", "g", "h", "i", "j", "k", "l", "m",
   "n", "o", "p", "q", "r", "s", "t", "u", "v", "w", "x", "y", "z"}

UpperChars ==
  {"A", "B", "C", "D", "E", "F", "G", "H", "I", "J", "K", "L", "M",
   "N", "O", "P", "Q", "R", "S", "T", "U", "V", "W", "X", "Y", "Z"}

DigitChars == {"0", "1", "2", "3", "4", "5", "6", "7", "8", "9"}

\* \w of a JavaScript RegExp
WordChars == LowerChars \cup UpperChars \cup DigitChars \cup {"_"}

\* \s of a JavaScript RegExp, and what String.prototype.trim removes
SpaceChars == {" ", "\t", "\f", "\r"}

\* ---------------------------------------------------------------------------
\* Regular expressions: syntax trees and their interpretation
\* ---------------------------------------------------------------------------
Chr(c) == <<"set", {c}>>
Set(S) == <<"set", S>>
NotSet(S) == <<"nset", S>>
Str(cs) == <<"str", cs>>
Cat(rs) == <<"cat", rs>>
Alt(rs) == <<"alt", rs>>
Star(r) == <<"star", r>>
Plus(r) == <<"cat", <<r, <<"star", r>>>>>>
Opt(r) == <<"alt", <<r, <<"cat", <<>>>>>>>>
Bol == <<"bol">>
Eol == <<"eol">>

RECURSIVE Ends(_, _, _)
RECURSIVE CatEnds(_, _, _, _)
RECURSIVE AltEnds(_, _, _, _)
RECURSIVE StarEnds(_, _, _)
RECURSIVE StarStep(_, _, _, _)

\* The set of indices j such that r matches s[i .. j-1] (1-based, j-1 >= i-1).
Ends(r, s, i) ==
  CASE r[1] = "set" -> IF i <= Len(s) /\ s[i] \in r[2] THEN {i + 1} ELSE {}
    [] r[1] = "nset" -> IF i <= Len(s) /\ s[i] \notin r[2] THEN {i + 1} ELSE {}
    [] r[1] = "str" ->
         IF i + Len(r[2]) - 1 <= Len(s)
            /\ \A k \in 1..Len(r[2]) : s[i + k - 1] = r[2][k]
         THEN {i + Len(r[2])} ELSE {}
    [] r[1] = "cat" -> CatEnds(r[2], 1, s, {i})
    [] r[1] = "alt" -> AltEnds(r[2], 1, s, i)
    [] r[1] = "star" -> StarEnds(r[2], s, {i})
    [] r[1] = "bol" -> IF i = 1 THEN {i} ELSE {}
    [] r[1] = "eol" -> IF i = Len(s) + 1 THEN {i} ELSE {}

CatEnds(rs, k, s, from) ==
  IF k > Len(rs) \/ from = {} THEN from
  ELSE CatEnds(rs, k + 1, s, UNION {Ends(rs[k], s, j) : j \in from})

AltEnds(rs, k, s, i) ==
  IF k > Len(rs) THEN {}
  ELSE Ends(rs[k], s, i) \cup AltEnds(rs, k + 1, s, i)

StarEnds(r, s, from) == StarStep(r, s, from, from \cup UNION {Ends(r, s, j) : j \in from})

StarStep(r, s, from, more) == IF more = from THEN from ELSE StarEnds(r, s, more)

\* An expression that begins with ^ can match at the start of the text only.
startsWithBol(re) == re[1] = "cat" /\ Len(re[2]) > 0 /\ re[2][1] = Bol

\* RegExp.prototype.test of a non-global expression: a match starting anywhere.
RegexTest(re, text) ==
  IF startsWithBol(re) THEN Ends(re, text, 1) # {}
  ELSE \E i \in 1..(Len(text) + 1) : Ends(re, text, i) # {}

\* RegExp.prototype.exec with lastIndex = from (0-based): the leftmost match at
\* or after from as [index, length] (0-based index), or NoMatch.  The patterns
\* executed this way are a literal, or \s* followed by a literal, so the match
\* at a given start is unique.
NoMatch == [index |-> -1, length |-> 0]

\* The first 1-based index >= i at which re matches, or 0.
RECURSIVE firstMatchStart(_, _, _)
firstMatchStart(re, text, i) ==
  IF i > Len(text) + 1 THEN 0
  ELSE IF Ends(re, text, i) # {} THEN i
  ELSE firstMatchStart(re, text, i + 1)

MaxOf(S) == CHOOSE x \in S : \A y \in S : x >= y

matchAt(re, text, i) ==
  IF i = 0 THEN NoMatch
  ELSE [index |-> i - 1, length |-> MaxOf(Ends(re, text, i)) - i]

RegexExec(re, text, from) == matchAt(re, text, firstMatchStart(re, text, from + 1))

\* ---------------------------------------------------------------------------
\* Pre-compiled pattern builders
\* ---------------------------------------------------------------------------
\* The keywords that occur in the patterns, as character sequences.
kw(w) ==
  Str(CASE w = "if" -> <<"i", "f">>
        [] w = "for" -> <<"f", "o", "r">>
        [] w = "while" -> <<"w", "h", "i", "l", "e">>
        [] w = "export" -> <<"e", "x", "p", "o", "r", "t">>
        [] w = "async" -> <<"a", "s", "y", "n", "c">>
        [] w = "function" -> <<"f", "u", "n", "c", "t", "i", "o", "n">>
        [] w = "abstract" -> <<"a", "b", "s", "t", "r", "a", "c", "t">>
        [] w = "class" -> <<"c", "l", "a", "s", "s">>
        [] w = "try" -> <<"t", "r", "y">>
        [] w = "catch" -> <<"c", "a", "t", "c", "h">>
        [] w = "finally" -> <<"f", "i", "n", "a", "l", "l", "y">>
        [] w = "else" -> <<"e", "l", "s", "e">>
        [] w = "switch" -> <<"s", "w", "i", "t", "c", "h">>
        [] w = "const" -> <<"c", "o", "n", "s", "t">>
        [] w = "let" -> <<"l", "e", "t">>
        [] w = "var" -> <<"v", "a", "r">>
        [] w = "public" -> <<"p", "u", "b", "l", "i", "c">>
        [] w = "private" -> <<"p", "r", "i", "v", "a", "t", "e">>
        [] w = "protected" -> <<"p", "r", "o", "t", "e", "c", "t", "e", "d">>
        [] w = "static" -> <<"s", "t", "a", "t", "i", "c">>
        [] w = "new" -> <<"n", "e", "w">>
        [] w = "return" -> <<"r", "e", "t", "u", "r", "n">>
        [] w = "import" -> <<"i", "m", "p", "o", "r", "t">>
        [] w = "from" -> <<"f", "r", "o", "m">>
        [] w = "elif" -> <<"e", "l", "i", "f">>
        [] w = "def" -> <<"d", "e", "f">>
        [] w = "except" -> <<"e", "x", "c", "e", "p", "t">>)

\* \s*   \s+   \w+
S0 == Star(Set(SpaceChars))
S1 == Plus(Set(SpaceChars))
W1 == Plus(Set(WordChars))

\* (export\s+)?   (async\s+)?   (abstract\s+)?   (const|let|var)
optExport == Opt(Cat(<<kw("export"), S1>>))
optAsync == Opt(Cat(<<kw("async"), S1>>))
optAbstract == Opt(Cat(<<kw("abstract"), S1>>))
constLetVar == Alt(<<kw("const"), kw("let"), kw("var")>>)

\* /^\s*(export\s+)?(async\s+)?function\s+\w+/
reFunction == Cat(<<Bol, S0, optExport, optAsync, kw("function"), S1, W1>>)
\* /^\s*(export\s+)?(const|let|var)\s+\w+\s*=\s*(async\s+)?\(/
reArrowFunction ==
  Cat(<<Bol, S0, optExport, constLetVar, S1, W1, S0, Chr("="), S0, optAsync, Chr("(")>>)
\* /^\s*(export\s+)?(const|let|var)\s+\w+\s*=\s*(async\s+)?(\w+|\([^)]*\))\s*=>/
reArrowFunctionShort ==
  Cat(<<Bol, S0, optExport, constLetVar, S1, W1, S0, Chr("="), S0, optAsync,
        Alt(<<W1, Cat(<<Chr("("), Star(NotSet({")"})), Chr(")")>>)>>),
        S0, Str(<<"=", ">">>)>>)
\* /^\s*(export\s+)?(abstract\s+)?class\s+\w+/
reClassTs == Cat(<<Bol, S0, optExport, optAbstract, kw("class"), S1, W1>>)
\* /^\s*(export\s+)?class\s+\w+/
reClassJs == Cat(<<Bol, S0, optExport, kw("class"), S1, W1>>)
\* /^\s*(public|private|protected|static|async|\s)*\w+\s*\([^)]*\)\s*[:{]/
reMethodTs ==
  Cat(<<Bol, S0,
        Star(Alt(<<kw("public"), kw("private"), kw("protected"), kw("static"), kw("async"),
                   Set(SpaceChars)>>)),
        W1, S0, Chr("("), Star(NotSet({")"})), Chr(")"), S0, Set({":", "{"})>>)
\* /^\s*(async\s+)?\w+\s*\([^)]*\)\s*\{/
reMethodJs ==
  Cat(<<Bol, S0, optAsync, W1, S0, Chr("("), Star(NotSet({")"})), Chr(")"), S0, Chr("{")>>)
\* /^\s*(export\s+)?(const|function)\s+[A-Z]\w+/
reComponent ==
  Cat(<<Bol, S0, optExport, Alt(<<kw("const"), kw("function")>>), S1, Set(UpperChars), W1>>)
\* /^\s*(export\s+)?(const|let|var)\s+\w+\s*=\s*(new\s+\w+|\{|\[|function|class)/
reComplexVariable ==
  Cat(<<Bol, S0, optExport, constLetVar, S1, W1, S0, Chr("="), S0,
        Alt(<<Cat(<<kw("new"), S1, W1>>), Chr("{"), Chr("["), kw("function"), kw("class")>>)>>)

\* /^\s*import\s+/   /^\s*export\s+/   /^\s*$/
reImport == Cat(<<Bol, S0, kw("import"), S1>>)
reExport == Cat(<<Bol, S0, kw("export"), S1>>)
reEmptyOrWhitespace == Cat(<<Bol, S0, Eol>>)

\* Comment delimiters: //  #  /*  */  /**  """
litSlashSlash == Str(<<"/", "/">>)
litHash == Str(<<"#">>)
litSlashStar == Str(<<"/", "*">>)
litStarSlash == Str(<<"*", "/">>)
litSlashStarStar == Str(<<"/", "*", "*">>)
litTripleQuote == Str(<<"\"", "\"", "\"">>)

\* C-style comments of TypeScript and JavaScript.  An optional member of the
\* source object is a sequence of zero or one expressions.
cStyleComments ==
  [singleLine |-> Cat(<<Bol, S0, litSlashSlash>>),
   singleLineMarker |-> <<litSlashSlash>>,
   multiLine |-> [start |-> litSlashStar, end |-> litStarSlash],
   doc |-> <<[start |-> Cat(<<Bol, S0, litSlashStarStar>>), end |-> litStarSlash]>>,
   multiLineGlobal |-> <<[start |-> litSlashStar, end |-> litStarSlash]>>,
   docStartGlobal |-> <<Cat(<<Bol, S0, litSlashStarStar>>)>>]

\* Line-start patterns for classify(): JS/TS.
buildJsLikeClassificationPatterns ==
  [structural |->
     <<Cat(<<Bol, S0, kw("if"), S0, Chr("(")>>),
       Cat(<<Bol, S0, kw("for"), S0, Chr("(")>>),
       Cat(<<Bol, S0, kw("while"), S0, Chr("(")>>),
       reFunction,
       reClassTs,
       Cat(<<Bol, S0, kw("try"), S0, Chr("{")>>),
       Cat(<<Bol, S0, kw("catch"), S0, Chr("(")>>),
       Cat(<<Bol, S0, kw("finally"), S0, Chr("{")>>),
       Cat(<<Bol, S0, kw("else"), S0, Chr("{")>>),
       Cat(<<Bol, S0, kw("else"), S1, kw("if"), S0, Chr("(")>>),
       Cat(<<Bol, S0, kw("switch"), S0, Chr("(")>>),
       reArrowFunction,
       reArrowFunctionShort,
       reMethodTs,
       reComponent,
       reComplexVariable>>,
   simple |->
     <<Cat(<<Bol, S0, kw("const"), S1>>),
       Cat(<<Bol, S0, kw("let"), S1>>),
       Cat(<<Bol, S0, kw("var"), S1>>),
       Cat(<<Bol, S0, kw("return"), S1>>),
       Cat(<<Bol, S0, kw("return"), S0, Chr(";")>>),
       reImport,
       reExport>>]

\* /^\s*(async\s+)?def\s+\w+/   /^\s*class\s+\w+/   /^\s+def\s+\w+\s*\(/
rePyFunction == Cat(<<Bol, S0, optAsync, kw("def"), S1, W1>>)
rePyClass == Cat(<<Bol, S0, kw("class"), S1, W1>>)
rePyMethod == Cat(<<Bol, S1, kw("def"), S1, W1, S0, Chr("(")>>)
\* /^\s*from\s+\S+\s+import/
rePyFromImport ==
  Cat(<<Bol, S0, kw("from"), S1, Plus(NotSet(SpaceChars)), S1, kw("import")>>)

\* Line-start patterns for classify(): Python.
buildPythonClassificationPatterns ==
  [structural |->
     <<Cat(<<Bol, S0, kw("if"), S1>>),
       Cat(<<Bol, S0, kw("elif"), S1>>),
       Cat(<<Bol, S0, kw("else"), S0, Chr(":")>>),
       Cat(<<Bol, S0, kw("for"), S1>>),
       Cat(<<Bol, S0, kw("while"), S1>>),
       rePyFunction,
       rePyClass,
       Cat(<<Bol, S0, kw("try"), S0, Chr(":")>>),
       Cat(<<Bol, S0, kw("except"), S1>>),
       Cat(<<Bol, S0, kw("except"), S0, Chr(":")>>),
       Cat(<<Bol, S0, kw("finally"), S0, Chr(":")>>),
       rePyMethod>>,
   simple |->
     <<reImport,
       rePyFromImport,
       Cat(<<Bol, S0, kw("return"), S1>>),
       Cat(<<Bol, S0, kw("return"), S0, Eol>>)>>]

\* The values of the structural object are listed in key order.
buildTypeScriptPatterns ==
  [comments |-> cStyleComments,
   structural |-> <<reFunction, reArrowFunction, reArrowFunctionShort, reClassTs,
                    reMethodTs, reComponent, reComplexVariable>>,
   simple |-> <<reImport, reExport, reEmptyOrWhitespace>>,
   classification |-> <<buildJsLikeClassificationPatterns>>]

buildJavaScriptPatterns ==
  [comments |-> cStyleComments,
   structural |-> <<reFunction, reArrowFunction, reArrowFunctionShort, reClassJs,
                    reMethodJs, reComponent, reComplexVariable>>,
   simple |-> <<reImport, reExport, reEmptyOrWhitespace>>,
   classification |-> <<buildJsLikeClassificationPatterns>>]

buildPythonPatterns ==
  [comments |->
     [singleLine |-> Cat(<<Bol, S0, litHash>>),
      singleLineMarker |-> <<litHash>>,
      multiLine |-> [start |-> litTripleQuote, end |-> litTripleQuote],
      doc |-> <<[start |-> Cat(<<Bol, S0, litTripleQuote>>), end |-> litTripleQuote]>>,
      multiLineGlobal |-> <<[start |-> litTripleQuote, end |-> litTripleQuote]>>,
      docStartGlobal |-> <<Cat(<<Bol, S0, litTripleQuote>>)>>],
   structural |-> <<rePyFunction, rePyClass, rePyMethod>>,
   simple |-> <<Alt(<<reImport, rePyFromImport>>), reEmptyOrWhitespace>>,
   classification |-> <<buildPythonClassificationPatterns>>]

\* Generic C-style patterns for languages without specific support.
\* function: /^\s*function\s+\w+|^\s*\w+\s*\([^)]*\)\s*\{/
buildFallbackPatterns ==
  [comments |->
     [singleLine |-> Cat(<<Bol, S0, litSlashSlash>>),
      singleLineMarker |-> <<>>,
      multiLine |-> [start |-> litSlashStar, end |-> litStarSlash],
      doc |-> <<>>,
      multiLineGlobal |-> <<[start |-> litSlashStar, end |-> litStarSlash]>>,
      docStartGlobal |-> <<>>],
   structural |->
     <<Alt(<<Cat(<<Bol, S0, kw("function"), S1, W1>>),
             Cat(<<Bol, S0, W1, S0, Chr("("), Star(NotSet({")"})), Chr(")"), S0,
                   Chr("{")>>)>>),
       rePyClass>>,
   simple |-> <<reEmptyOrWhitespace>>,
   classification |-> <<buildJsLikeClassificationPatterns>>]

\* Max lines to scan backward when detecting multi-line comments.
MAX_BACKWARD_SCAN_LINES == 100

\* ---------------------------------------------------------------------------
\* CodeStructureDetector: the registry
\* ---------------------------------------------------------------------------
\* String.prototype.toLowerCase on the language ids of the model.
toLowerCase(id) ==
  CASE id = "TypeScript" -> "typescript"
    [] id = "PYTHON" -> "python"
    [] id = "Rust" -> "rust"
    [] OTHER -> id

\* The Map built by the constructor.
registryKeys ==
  {"typescript", "javascript", "typescriptreact", "javascriptreact", "python"}

registry(key) ==
  CASE key = "typescript" -> buildTypeScriptPatterns
    [] key = "javascript" -> buildJavaScriptPatterns
    [] key = "typescriptreact" -> buildTypeScriptPatterns
    [] key = "javascriptreact" -> buildJavaScriptPatterns
    [] key = "python" -> buildPythonPatterns

fallback == buildFallbackPatterns

\* A lookup by the id as it is written.
getPatternsAsWritten(languageId) ==
  IF languageId \in registryKeys THEN registry(languageId) ELSE fallback

getPatterns(languageId) ==
  IF toLowerCase(languageId) \in registryKeys THEN registry(toLowerCase(languageId))
  ELSE fallback

getLanguagePatterns(languageId) == getPatterns(languageId)

\* ---------------------------------------------------------------------------
\* Text and document primitives
\* ---------------------------------------------------------------------------
\* text.trim().length === 0
isBlank(text) == \A k \in 1..Len(text) : text[k] \in SpaceChars

RECURSIVE trimStart(_)
trimStart(text) ==
  IF text # <<>> /\ Head(text) \in SpaceChars THEN trimStart(Tail(text)) ELSE text

RECURSIVE trimEnd(_)
trimEnd(text) ==
  IF text # <<>> /\ text[Len(text)] \in SpaceChars
  THEN trimEnd(SubSeq(text, 1, Len(text) - 1)) ELSE text

trim(text) == trimEnd(trimStart(text))

\* document.lineCount and document.lineAt(i).text for 0 <= i < lineCount;
\* lineAt throws for any other index, which the callers below spell out.
lineCount(document) == Len(document)
inRange(document, i) == 0 <= i /\ i < Len(document)
lineAt(document, i) == document[i + 1]

Min(a, b) == IF a <= b THEN a ELSE b
Max(a, b) == IF a >= b THEN a ELSE b

\* Characters before line i, one per newline.
RECURSIVE lineStartOffset(_, _)
lineStartOffset(document, i) ==
  IF i <= 0 THEN 0
  ELSE lineStartOffset(document, i - 1) + Len(lineAt(document, i - 1)) + 1

\* document.offsetAt(position): the character is clamped to the line's length.
offsetAt(document, position) ==
  lineStartOffset(document, Min(position.line, Len(document)))
    + Min(position.character,
          IF position.line < Len(document) THEN Len(lineAt(document, position.line)) ELSE 0)

\* lines.join("\n")
RECURSIVE joinLines(_)
joinLines(lines) ==
  IF lines = <<>> THEN <<>>
  ELSE IF Len(lines) = 1 THEN lines[1]
  ELSE lines[1] \o <<"\n">> \o joinLines(Tail(lines))

\* ---------------------------------------------------------------------------
\* CodeStructureDetector
\* ---------------------------------------------------------------------------
\* text.match(/^\s*/)[0].length
RECURSIVE getLeadingWhitespaceLength(_)
getLeadingWhitespaceLength(text) ==
  IF text # <<>> /\ Head(text) \in SpaceChars
  THEN 1 + getLeadingWhitespaceLength(Tail(text)) ELSE 0

RECURSIVE matchAnyPatternFrom(_, _, _)
matchAnyPatternFrom(lineText, patterns, k) ==
  IF k > Len(patterns) THEN FALSE
  ELSE IF RegexTest(patterns[k], lineText) THEN TRUE
  ELSE matchAnyPatternFrom(lineText, patterns, k + 1)

matchAnyPattern(lineText, patterns) == matchAnyPatternFrom(lineText, patterns, 1)

\* null of getPreviousNonBlankLineInfo / getNextNonBlankLineInfo
NoLineInfo == [indent |-> -1, lineIndex |-> -1]

RECURSIVE prevNonBlankFrom(_, _)
prevNonBlankFrom(document, lineIndex) ==
  IF lineIndex < 0 THEN NoLineInfo
  ELSE IF ~isBlank(lineAt(document, lineIndex))
  THEN [indent |-> getLeadingWhitespaceLength(lineAt(document, lineIndex)),
        lineIndex |-> lineIndex]
  ELSE prevNonBlankFrom(document, lineIndex - 1)

getPreviousNonBlankLineInfo(document, fromLine) ==
  prevNonBlankFrom(document, fromLine - 1)

RECURSIVE nextNonBlankFrom(_, _, _)
nextNonBlankFrom(document, lineIndex, count) ==
  IF lineIndex >= count THEN NoLineInfo
  ELSE IF ~isBlank(lineAt(document, lineIndex))
  THEN [indent |-> getLeadingWhitespaceLength(lineAt(document, lineIndex)),
        lineIndex |-> lineIndex]
  ELSE nextNonBlankFrom(document, lineIndex + 1, count)

getNextNonBlankLineInfo(document, fromLine, count) ==
  nextNonBlankFrom(document, fromLine + 1, count)

\* A variant of indentationFallback that accepts equal indentation.
indentationFallbackNotLess(leadingSpaces, prev) ==
  IF prev # NoLineInfo /\ leadingSpaces >= prev.indent THEN "structural" ELSE "unknown"

\* The indentation fallback of classify.
indentationFallback(leadingSpaces, prev) ==
  IF prev # NoLineInfo /\ leadingSpaces > prev.indent THEN "structural" ELSE "unknown"

\* A variant of classifyLine that tests the simple patterns first.
classifyLineSimpleFirst(document, position, classification, lineText) ==
  IF isBlank(lineText) THEN "unknown"
  ELSE IF classification # <<>> /\ matchAnyPattern(lineText, classification[1].simple)
  THEN "simple"
  ELSE IF classification # <<>> /\ matchAnyPattern(lineText, classification[1].structural)
  THEN "structural"
  ELSE indentationFallback(getLeadingWhitespaceLength(lineText),
                           getPreviousNonBlankLineInfo(document, position.line))

\* classify once the line is known to exist.
classifyLine(document, position, classification, lineText) ==
  IF isBlank(lineText) THEN "unknown"
  ELSE IF classification # <<>> /\ matchAnyPattern(lineText, classification[1].structural)
  THEN "structural"
  ELSE IF classification # <<>> /\ matchAnyPattern(lineText, classification[1].simple)
  THEN "simple"
  ELSE indentationFallback(getLeadingWhitespaceLength(lineText),
                           getPreviousNonBlankLineInfo(document, position.line))

\* A variant that classifies the nearest line when the index is out of range.
classifyClamped(document, languageId, position) ==
  IF lineCount(document) = 0 THEN "unknown"
  ELSE classifyLine(document,
                    [line |-> Max(0, Min(position.line, lineCount(document) - 1)),
                     character |-> position.character],
                    getPatterns(languageId).classification,
                    lineAt(document, Max(0, Min(position.line, lineCount(document) - 1))))

classify(document, languageId, position) ==
  IF lineCount(document) = 0 \/ position.line < 0 \/ position.line >= lineCount(document)
  THEN "unknown"
  ELSE classifyLine(document, position, getPatterns(languageId).classification,
                    lineAt(document, position.line))

\* The matches of a global expression on one line, as exec finds them in turn:
\* each search resumes at the end of the previous match.
RECURSIVE globalMatches(_, _, _)
RECURSIVE globalMatchesAfter(_, _, _)
globalMatches(g, text, lastIndex) == globalMatchesAfter(g, text, RegexExec(g, text, lastIndex))

globalMatchesAfter(g, text, m) ==
  IF m = NoMatch \/ m.length = 0 THEN <<>>
  ELSE <<m>> \o globalMatches(g, text, m.index + m.length)

\* The event addMatchesFromGlobal pushes for one match, if any.
matchEvent(m, offset, type, endOffsetPlusLength, skipStartOffsets, positionOffset) ==
  IF type = "start" /\ offset \in skipStartOffsets THEN <<>>
  ELSE IF offset <= positionOffset
  THEN <<[offset |-> IF type = "end" /\ endOffsetPlusLength THEN offset + m.length
                     ELSE offset,
          type |-> type]>>
  ELSE <<>>

\* addMatchesFromGlobal: the events one pattern adds for one line.
RECURSIVE addMatchesFromGlobal(_, _, _, _, _, _)
addMatchesFromGlobal(ms, lineStart, type, endOffsetPlusLength, skipStartOffsets, positionOffset) ==
  IF ms = <<>> THEN <<>>
  ELSE matchEvent(Head(ms), lineStart + Head(ms).index, type, endOffsetPlusLength,
                  skipStartOffsets, positionOffset)
       \o addMatchesFromGlobal(Tail(ms), lineStart, type, endOffsetPlusLength,
                               skipStartOffsets, positionOffset)

\* The symmetric-delimiter branch: within one line the k-th occurrence (from 0)
\* is a start when k is even and an end, placed after the delimiter, when odd.
RECURSIVE paritiedEvents(_, _, _)
paritiedEvents(positions, k, acc) ==
  IF k > Len(positions) THEN acc
  ELSE paritiedEvents(positions, k + 1,
         Append(acc,
           IF (k - 1) % 2 = 0
           THEN [offset |-> positions[k].offset, type |-> "start"]
           ELSE [offset |-> positions[k].offset + positions[k].len, type |-> "end"]))

RECURSIVE positionsUpTo(_, _, _)
positionsUpTo(ms, lineStart, positionOffset) ==
  IF ms = <<>> THEN <<>>
  ELSE (IF lineStart + Head(ms).index <= positionOffset
        THEN <<[offset |-> lineStart + Head(ms).index, len |-> Head(ms).length]>>
        ELSE <<>>)
       \o positionsUpTo(Tail(ms), lineStart, positionOffset)

\* The global expressions isComment scans with.
multiSame(comments) == comments.multiLine.start = comments.multiLine.end
multiStartG(comments) ==
  IF comments.multiLineGlobal # <<>> THEN comments.multiLineGlobal[1].start
  ELSE comments.multiLine.start
multiEndG(comments) ==
  IF comments.multiLineGlobal # <<>> THEN comments.multiLineGlobal[1].end
  ELSE comments.multiLine.end
docStartG(comments) ==
  IF comments.doc = <<>> THEN <<>>
  ELSE IF comments.docStartGlobal # <<>> THEN comments.docStartGlobal
  ELSE <<comments.doc[1].start>>

\* The lastIndex properties of the three global expressions of the document's
\* pattern set: the state the cached patterns carry from one call to the next.
VARIABLE lastIndex

ZeroLastIndex == [start |-> 0, end |-> 0, docStart |-> 0]

\* A loop that takes up the search where the expression was left and stops at
\* the first match.
execLoopResuming(g, text, stored) ==
  [matches |-> IF RegexExec(g, text, stored) = NoMatch THEN <<>>
               ELSE <<RegexExec(g, text, stored)>>,
   lastIndex |-> IF RegexExec(g, text, stored) = NoMatch THEN 0
                 ELSE RegexExec(g, text, stored).index + RegexExec(g, text, stored).length]

\* g.lastIndex = 0; while ((m = g.exec(text)) !== null): the matches found from
\* index 0 on, whatever the expression's lastIndex was, and the lastIndex the
\* failing last exec resets to 0.
execLoop(g, text, stored) == [matches |-> globalMatches(g, text, 0), lastIndex |-> 0]

\* The doc-comment starts of one line.
docMatches(comments, text) ==
  IF docStartG(comments) = <<>> THEN <<>>
  ELSE execLoop(docStartG(comments)[1], text, lastIndex.docStart).matches

\* docStartOffsets of one line.
docStartOffsetsOf(ms, lineStart, positionOffset) ==
  {lineStart + ms[k].index :
     k \in {k \in 1..Len(ms) : lineStart + ms[k].index <= positionOffset}}

\* The events the scan loop adds for one line.
lineEvents(text, lineStart, comments, positionOffset) ==
  IF multiSame(comments)
  THEN paritiedEvents(
         positionsUpTo(execLoop(multiStartG(comments), text, lastIndex.start).matches,
                       lineStart, positionOffset),
         1, <<>>)
  ELSE addMatchesFromGlobal(execLoop(multiStartG(comments), text, lastIndex.start).matches,
                            lineStart, "start", FALSE,
                            docStartOffsetsOf(docMatches(comments, text), lineStart,
                                              positionOffset),
                            positionOffset)
       \o addMatchesFromGlobal(execLoop(multiEndG(comments), text, lastIndex.end).matches,
                               lineStart, "end", TRUE, {}, positionOffset)
       \o addMatchesFromGlobal(docMatches(comments, text), lineStart, "start", FALSE, {},
                               positionOffset)

RECURSIVE scanEvents(_, _, _, _, _)
scanEvents(document, comments, i, lastLine, positionOffset) ==
  IF i > lastLine THEN <<>>
  ELSE lineEvents(lineAt(document, i), lineStartOffset(document, i), comments,
                  positionOffset)
       \o scanEvents(document, comments, i + 1, lastLine, positionOffset)

\* Replaying the sorted events up to positionOffset: every event at or before
\* the offset is applied, so the running count is starts minus ends among them.
replayStack(events, positionOffset) ==
  Cardinality({k \in 1..Len(events) :
                 events[k].offset <= positionOffset /\ events[k].type = "start"})
  - Cardinality({k \in 1..Len(events) :
                   events[k].offset <= positionOffset /\ events[k].type = "end"})

\* A scan that starts at the first line of the document, however far up.
isInsideMultiLineFromTop(document, position, comments, positionOffset) ==
  replayStack(scanEvents(document, comments, 0, position.line, positionOffset),
              positionOffset) > 0

\* The multi-line part of isComment: backward scan and replay.
isInsideMultiLine(document, position, comments, positionOffset) ==
  replayStack(scanEvents(document, comments,
                         Max(0, position.line - MAX_BACKWARD_SCAN_LINES), position.line,
                         positionOffset),
              positionOffset) > 0

\* isComment once the line is known to exist.
isCommentOnLine(document, position, comments, lineText) ==
  IF RegexTest(comments.singleLine, lineText) THEN TRUE
  ELSE IF comments.singleLineMarker # <<>>
          /\ RegexExec(comments.singleLineMarker[1], lineText, 0) # NoMatch
  THEN position.character >= RegexExec(comments.singleLineMarker[1], lineText, 0).index
  ELSE isInsideMultiLine(document, position, comments, offsetAt(document, position))

isComment(document, languageId, position) ==
  IF lineCount(document) = 0 \/ position.line < 0 \/ position.line >= lineCount(document)
  THEN FALSE
  ELSE isCommentOnLine(document, position, getPatterns(languageId).comments,
                       lineAt(document, position.line))

\* The lastIndex values isComment leaves behind: those of the loops over the
\* queried line, the last line scanned; a call that returns before the scan
\* touches none of the expressions.
lastIndexAfterScan(comments, lineText) ==
  [start |-> execLoop(multiStartG(comments), lineText, lastIndex.start).lastIndex,
   end |-> IF multiSame(comments) THEN lastIndex.end
           ELSE execLoop(multiEndG(comments), lineText, lastIndex.end).lastIndex,
   docStart |-> IF docStartG(comments) = <<>> THEN lastIndex.docStart
                ELSE execLoop(docStartG(comments)[1], lineText, lastIndex.docStart).lastIndex]

reachesScan(comments, lineText) ==
  /\ ~RegexTest(comments.singleLine, lineText)
  /\ \/ comments.singleLineMarker = <<>>
     \/ RegexExec(comments.singleLineMarker[1], lineText, 0) = NoMatch

lastIndexAfterIsComment(document, languageId, position) ==
  IF lineCount(document) = 0 \/ position.line < 0 \/ position.line >= lineCount(document)
  THEN lastIndex
  ELSE IF reachesScan(getPatterns(languageId).comments, lineAt(document, position.line))
  THEN lastIndexAfterScan(getPatterns(languageId).comments, lineAt(document, position.line))
  ELSE lastIndex

\* endsWith("{") on the trimmed text; "}", "};" or "}," as the whole trimmed text
isOpeningBraceLine(trimmed) == trimmed # <<>> /\ trimmed[Len(trimmed)] = "{"
isClosingBraceLine(trimmed) ==
  trimmed \in {<<"}">>, <<"}", ";">>, <<"}", ",">>}

\* A variant that asks for indentation on both sides of the blank line.
emptyLineBetweenBothIndented(document, prev, next) ==
  IF prev = NoLineInfo \/ next = NoLineInfo THEN FALSE
  ELSE IF prev.indent > 0 /\ next.indent > 0 THEN TRUE
  ELSE isOpeningBraceLine(trim(lineAt(document, prev.lineIndex)))
       /\ isClosingBraceLine(trim(lineAt(document, next.lineIndex)))

\* isEmptyLineInBlock once the blank line's neighbors are known.
emptyLineBetween(document, prev, next) ==
  IF prev = NoLineInfo \/ next = NoLineInfo THEN FALSE
  ELSE IF prev.indent > 0 \/ next.indent > 0 THEN TRUE
  ELSE isOpeningBraceLine(trim(lineAt(document, prev.lineIndex)))
       /\ isClosingBraceLine(trim(lineAt(document, next.lineIndex)))

isEmptyLineInBlock(document, position) ==
  IF lineCount(document) = 0 \/ position.line < 0 \/ position.line >= lineCount(document)
  THEN FALSE
  ELSE IF ~isBlank(lineAt(document, position.line)) THEN FALSE
  ELSE emptyLineBetween(document,
                        getPreviousNonBlankLineInfo(document, position.line),
                        getNextNonBlankLineInfo(document, position.line,
                                                lineCount(document)))

\* ---------------------------------------------------------------------------
\* ContextExtractor
\* ---------------------------------------------------------------------------
\* The classification argument: a ClassificationResult, or omitted (undefined).
ClassificationArgs == {"structural", "simple", "unknown", "omitted"}

\* Number of leading spaces or tabs.
RECURSIVE getIndentation(_)
getIndentation(line) ==
  IF line # <<>> /\ Head(line) \in {" ", "\t"}
  THEN 1 + getIndentation(Tail(line)) ELSE 0

\* An operation that returns a line range, or throws (lineAt out of range).
LineRange(s, e) == [threw |-> FALSE, start |-> s, end |-> e]
ThrownRange == [threw |-> TRUE, start |-> -1, end |-> -1]

RECURSIVE neighborAbove(_, _)
neighborAbove(document, i) ==
  IF i < 0 THEN -1
  ELSE IF ~isBlank(lineAt(document, i)) THEN i
  ELSE neighborAbove(document, i - 1)

RECURSIVE neighborBelow(_, _, _)
neighborBelow(document, i, count) ==
  IF i >= count THEN -1
  ELSE IF ~isBlank(lineAt(document, i)) THEN i
  ELSE neighborBelow(document, i + 1, count)

\* Indentation of the nearest non-blank line above, else below, else 0.
indentationOfNeighbor(document, above, below) ==
  IF above >= 0 THEN getIndentation(lineAt(document, above))
  ELSE IF below >= 0 THEN getIndentation(lineAt(document, below))
  ELSE 0

getIndentationFromNeighbor(document, lineIndex, count) ==
  indentationOfNeighbor(document, neighborAbove(document, lineIndex - 1),
                        neighborBelow(document, lineIndex + 1, count))

\* A variant of indentBlockStart that also stops at a line of equal indentation.
RECURSIVE indentBlockStartAtEqual(_, _, _)
indentBlockStartAtEqual(document, i, currentIndent) ==
  IF i < 0 THEN 0
  ELSE IF isBlank(lineAt(document, i))
  THEN indentBlockStartAtEqual(document, i - 1, currentIndent)
  ELSE IF getIndentation(lineAt(document, i)) <= currentIndent THEN i + 1
  ELSE indentBlockStartAtEqual(document, i - 1, currentIndent)

\* The upward loop of getBlockLineRangeIndent: blockStart.
RECURSIVE indentBlockStart(_, _, _)
indentBlockStart(document, i, currentIndent) ==
  IF i < 0 THEN 0
  ELSE IF isBlank(lineAt(document, i)) THEN indentBlockStart(document, i - 1, currentIndent)
  ELSE IF getIndentation(lineAt(document, i)) < currentIndent THEN i + 1
  ELSE indentBlockStart(document, i - 1, currentIndent)

\* The downward loop of getBlockLineRangeIndent: blockEnd.
RECURSIVE indentBlockEnd(_, _, _, _)
indentBlockEnd(document, i, blockEnd, currentIndent) ==
  IF i >= lineCount(document) THEN blockEnd
  ELSE IF isBlank(lineAt(document, i))
  THEN indentBlockEnd(document, i + 1, i, currentIndent)
  ELSE IF getIndentation(lineAt(document, i)) < currentIndent THEN blockEnd
  ELSE indentBlockEnd(document, i + 1, i, currentIndent)

\* The two loops of getBlockLineRangeIndent, given the queried line's indentation.
indentRangeFrom(document, lineIndex, currentIndent) ==
  LineRange(indentBlockStart(document, lineIndex - 1, currentIndent),
            indentBlockEnd(document, lineIndex + 1, lineIndex, currentIndent))

getBlockLineRangeIndent(document, position) ==
  IF ~inRange(document, position.line) THEN ThrownRange
  ELSE indentRangeFrom(document, position.line,
                       getIndentation(lineAt(document, position.line)))

\* A variant of structuralBlockStart that looks at the queried line only.
structuralBlockStartNoScan(document, i, effectiveIndent, structuralPatterns) ==
  IF ~isBlank(lineAt(document, i))
     /\ getIndentation(lineAt(document, i)) <= effectiveIndent
     /\ matchAnyPattern(lineAt(document, i), structuralPatterns)
  THEN i ELSE -1

\* The upward loop of getStructuralBlockLineRange: blockStart, or -1 for null.
RECURSIVE structuralBlockStart(_, _, _, _)
structuralBlockStart(document, i, effectiveIndent, structuralPatterns) ==
  IF i < 0 THEN -1
  ELSE IF isBlank(lineAt(document, i))
  THEN structuralBlockStart(document, i - 1, effectiveIndent, structuralPatterns)
  ELSE IF getIndentation(lineAt(document, i)) > effectiveIndent
  THEN structuralBlockStart(document, i - 1, effectiveIndent, structuralPatterns)
  ELSE IF matchAnyPattern(lineAt(document, i), structuralPatterns) THEN i
  ELSE structuralBlockStart(document, i - 1, effectiveIndent, structuralPatterns)

\* A variant of structuralBlockEnd that runs on through lines of equal indentation.
RECURSIVE structuralBlockEndThroughEqual(_, _, _, _)
structuralBlockEndThroughEqual(document, i, blockEnd, blockStartIndent) ==
  IF i >= lineCount(document) THEN blockEnd
  ELSE IF isBlank(lineAt(document, i))
  THEN structuralBlockEndThroughEqual(document, i + 1, i, blockStartIndent)
  ELSE IF getIndentation(lineAt(document, i)) < blockStartIndent THEN blockEnd
  ELSE structuralBlockEndThroughEqual(document, i + 1, i, blockStartIndent)

\* The downward loop of getStructuralBlockLineRange: blockEnd.
RECURSIVE structuralBlockEnd(_, _, _, _)
structuralBlockEnd(document, i, blockEnd, blockStartIndent) ==
  IF i >= lineCount(document) THEN blockEnd
  ELSE IF isBlank(lineAt(document, i))
  THEN structuralBlockEnd(document, i + 1, i, blockStartIndent)
  ELSE IF getIndentation(lineAt(document, i)) <= blockStartIndent THEN blockEnd
  ELSE structuralBlockEnd(document, i + 1, i, blockStartIndent)

\* The expressions getStructuralBlockLineRange tests a line against: the values
\* of patterns.structural followed by patterns.classification.structural.
structuralStartPatterns(languageId) ==
  getLanguagePatterns(languageId).structural
  \o (IF getLanguagePatterns(languageId).classification # <<>>
      THEN getLanguagePatterns(languageId).classification[1].structural
      ELSE <<>>)

\* The queried line's own indentation, or its neighbor's when the line is blank.
effectiveIndentation(document, lineIndex) ==
  IF ~isBlank(lineAt(document, lineIndex))
  THEN getIndentation(lineAt(document, lineIndex))
  ELSE getIndentationFromNeighbor(document, lineIndex, lineCount(document))

\* getStructuralBlockLineRange after the upward loop has set blockStart.
structuralRangeFrom(document, position, blockStart) ==
  IF blockStart = -1 THEN getBlockLineRangeIndent(document, position)
  ELSE LineRange(blockStart,
                 structuralBlockEnd(document, blockStart + 1, blockStart,
                                    getIndentation(lineAt(document, blockStart))))

\* A variant of getStructuralBlockLineRange that always uses the indentation heuristic.
getStructuralBlockLineRangeIndentOnly(document, languageId, position) ==
  IF lineCount(document) = 0 \/ position.line < 0 \/ position.line >= lineCount(document)
  THEN LineRange(0, 0)
  ELSE getBlockLineRangeIndent(document, position)

getStructuralBlockLineRange(document, languageId, position) ==
  IF lineCount(document) = 0 \/ position.line < 0 \/ position.line >= lineCount(document)
  THEN LineRange(0, 0)
  ELSE structuralRangeFrom(document, position,
         structuralBlockStart(document, position.line,
                              effectiveIndentation(document, position.line),
                              structuralStartPatterns(languageId)))

getBlockLineRange(document, languageId, position, classification) ==
  IF classification = "structural"
  THEN getStructuralBlockLineRange(document, languageId, position)
  ELSE getBlockLineRangeIndent(document, position)

\* new vscode.Range(startLine, startChar, endLine, endChar)
Range(sl, sc, el, ec) ==
  [startLine |-> sl, startChar |-> sc, endLine |-> el, endChar |-> ec]

\* Math.max(0, Math.min(position.line, lineCount - 1))
clampLine(document, line) == Max(0, Min(line, lineCount(document) - 1))

\* A line range widened to the full width of its last line.
fullWidthRange(document, r) == Range(r.start, 0, r.end, Len(lineAt(document, r.end)))

getBlockRange(document, languageId, position, classification) ==
  IF lineCount(document) = 0 THEN Range(0, 0, 0, 0)
  ELSE IF classification = "simple"
  THEN Range(clampLine(document, position.line), 0, clampLine(document, position.line),
             Len(lineAt(document, clampLine(document, position.line))))
  ELSE IF classification = "structural"
  THEN fullWidthRange(document,
         getStructuralBlockLineRange(document, languageId,
           [line |-> clampLine(document, position.line), character |-> 0]))
  ELSE fullWidthRange(document,
         getBlockLineRange(document, languageId,
           [line |-> clampLine(document, position.line), character |-> 0], classification))

\* A text result, or a thrown error.
Text(t) == [threw |-> FALSE, text |-> t]
ThrownText == [threw |-> TRUE, text |-> <<>>]

\* The lines start..end of the document, in order.
linesOf(document, start, end) == [k \in 1..(end - start + 1) |-> lineAt(document, start + k - 1)]

\* The joined text of a line range, or the error that computing the range threw.
blockText(document, r) ==
  IF r.threw THEN ThrownText ELSE Text(joinLines(linesOf(document, r.start, r.end)))

extractBlock(document, languageId, position, classification) ==
  IF lineCount(document) = 0 THEN Text(<<>>)
  ELSE IF classification = "simple"
  THEN Text(trimEnd(lineAt(document, clampLine(document, position.line))))
  ELSE blockText(document, getBlockLineRange(document, languageId, position, classification))

\* The default of extract's lineRange parameter.
DEFAULT_LINE_RANGE == 5

\* The context lines of extract: startLine..endLine without the queried line.
RECURSIVE contextLines(_, _, _, _)
contextLines(document, i, endLine, lineIndex) ==
  IF i > endLine THEN <<>>
  ELSE (IF i # lineIndex THEN <<lineAt(document, i)>> ELSE <<>>)
       \o contextLines(document, i + 1, endLine, lineIndex)

\* extract returns {code, context}, or throws when lineAt(position.line) does.
ThrownExtract == [threw |-> TRUE, code |-> <<>>, context |-> <<>>]

extract(document, position, lineRange) ==
  LET lineIndex == position.line
      startLine == Max(0, lineIndex - lineRange)
      endLine == Min(lineCount(document) - 1, lineIndex + lineRange)
  IN IF ~inRange(document, lineIndex) THEN ThrownExtract
     ELSE [threw |-> FALSE,
           code |-> trim(lineAt(document, lineIndex)),
           context |-> joinLines(contextLines(document, startLine, endLine, lineIndex))]

\* ---------------------------------------------------------------------------
\* State
\* ---------------------------------------------------------------------------
VARIABLES
  document,            \* the lines of the text buffer
  languageId,          \* document.languageId
  position,            \* the position argument of the last query
  classification,      \* the classification argument of the last query
  op,                  \* the operation that ran last
  rangeResult,         \* what getBlockRange returned
  textResult,          \* what extractBlock returned, or that it threw
  extractResult,       \* what extract returned, or that it threw
  classifyResult,      \* what classify returned
  boolResult,          \* what isComment / isEmptyLineInBlock returned
  cache,               \* CacheService.cache: entries [key, explanation, timestamp]
  now,                 \* Date.now()
  fetches,             \* the fetchExplanation calls started so far
  hoverCancelSource,   \* index in fetches of the current cancel source, 0 for null
  lastDecoratedRange,  \* the provider's lastDecoratedRange, NoRange for null
  lastDecoratedEditor, \* the provider's lastDecoratedEditor, "none" for null
  editorDecorations,   \* what the editors show for the decoration type: [editor, range]
  hoverResult,         \* what provideHover returned, when it ran last
  lastHover,           \* what provideHover computed on its way, when it ran last,
                       \* and what the editors showed when it was called
  remembered,          \* an answer the caller has kept, to compare later ones with
  patternsResult,      \* what getLanguagePatterns returned
  cacheResult,         \* what CacheService.get returned, and for which code
  hits,                \* CacheService.hits
  misses,              \* CacheService.misses
  quotaRecord,         \* the value Redis holds under quota:<deviceId>, with its expiry
  quotaClock,          \* Date.now() of the backend, in ms
  quotaCalls,          \* the now of every checkAndConsumeQuota call whose script has not run
  quotaReply,          \* what the last run of the script replied
  quotaGranted         \* how many calls the stored window has granted

queryVars ==
  <<position, classification, rangeResult, textResult, extractResult, classifyResult,
    boolResult>>

hoverVars ==
  <<cache, now, fetches, hoverCancelSource, lastDecoratedRange, lastDecoratedEditor,
    editorDecorations, hoverResult, lastHover>>

registryVars == <<lastIndex, remembered, patternsResult>>

serviceVars ==
  <<cacheResult, hits, misses, quotaRecord, quotaClock, quotaCalls, quotaReply, quotaGranted>>

vars == <<document, languageId, op, queryVars, hoverVars, registryVars, serviceVars>>

\* All documents of at most MaxLines lines over a vocabulary of lines.
DocsOver(vocabulary) == UNION {[1..n -> vocabulary] : n \in 0..MaxLines}

NoRange == Range(-1, -1, -1, -1)
NoText == Text(<<>>)
NoExtract == [threw |-> FALSE, code |-> <<>>, context |-> <<>>]

\* provideHover returns null, or a Hover showing an explanation.
NullHover == [shown |-> FALSE, explanation |-> "none"]
NoLastHover ==
  [ran |-> FALSE, classification |-> "none", code |-> <<>>, highlighted |-> FALSE,
   highlightRange |-> NoRange, shownBefore |-> {}]

\* The provider as constructed: nothing cached, fetched or decorated.
HoverIdle ==
  /\ cache = {}
  /\ now = 0
  /\ fetches = <<>>
  /\ hoverCancelSource = 0
  /\ lastDecoratedRange = NoRange
  /\ lastDecoratedEditor = "none"
  /\ editorDecorations = {}
  /\ hoverResult = NullHover
  /\ lastHover = NoLastHover

NoAnswer == [op |-> "none"]
NoPatterns == [comments |-> <<>>]

RegistryIdle ==
  /\ lastIndex = ZeroLastIndex
  /\ remembered = NoAnswer
  /\ patternsResult = NoPatterns

NoCacheResult == [code |-> <<>>, value |-> [kind |-> "none", of |-> <<>>]]
NoQuotaRecord == [exists |-> FALSE, count |-> 0, windowStart |-> 0, resetAt |-> 0, expiresAt |-> 0]
NoQuotaReply == [kind |-> "none", count |-> 0, now |-> 0]

\* The cache service and the quota service untouched.
ServiceIdle ==
  /\ cacheResult = NoCacheResult
  /\ hits = 0
  /\ misses = 0
  /\ quotaRecord = NoQuotaRecord
  /\ quotaClock = 0
  /\ quotaCalls = <<>>
  /\ quotaReply = NoQuotaReply
  /\ quotaGranted = 0

QueryIdle ==
  /\ rangeResult = NoRange
  /\ textResult = NoText
  /\ extractResult = NoExtract
  /\ classifyResult = "none"
  /\ boolResult = FALSE

\* ---------------------------------------------------------------------------
\* The context extractor queried on bounded inputs
\* ---------------------------------------------------------------------------
ExtractorLinesTs ==
  {<<"i", "f", " ", "(", "a", ")", " ", "{">>,
   <<" ", " ", "i", "f", " ", "(", "b", ")", " ", "{">>,
   <<" ", " ", "f", "o", "o", "(", ")", ";">>,
   <<"f", "o", "o", "(", ")", ";", " ">>,
   <<>>}

ExtractorLinesPy ==
  {<<"i", "f", " ", "a", ":">>,
   <<" ", " ", "x", " ", "=", " ", "1">>,
   <<"x", " ", "=", " ", "1">>,
   <<>>}

ExtractorLinesOther ==
  {<<"f", "o", "o", "(", ")", " ", "{">>,
   <<" ", " ", "b", "a", "r", "(", ")", ";">>,
   <<"}">>,
   <<" ", " ">>}

InitExtractor ==
  /\ \/ languageId = "typescript" /\ document \in DocsOver(ExtractorLinesTs)
     \/ languageId = "python" /\ document \in DocsOver(ExtractorLinesPy)
     \/ languageId = "rust" /\ document \in DocsOver(ExtractorLinesOther)
  /\ position \in [line : -1..MaxLines, character : {0}]
  /\ classification \in ClassificationArgs
  /\ op = "none"
  /\ QueryIdle
  /\ HoverIdle
  /\ RegistryIdle
  /\ ServiceIdle

GetBlockRange ==
  /\ op' = "getBlockRange"
  /\ rangeResult' = getBlockRange(document, languageId, position, classification)
  /\ textResult' = NoText
  /\ extractResult' = NoExtract
  /\ classifyResult' = "none"
  /\ boolResult' = FALSE
  /\ patternsResult' = NoPatterns
  /\ UNCHANGED <<serviceVars, document, languageId, position, classification, hoverVars, lastIndex,
                 remembered>>

ExtractBlock ==
  /\ op' = "extractBlock"
  /\ textResult' = extractBlock(document, languageId, position, classification)
  /\ rangeResult' = NoRange
  /\ extractResult' = NoExtract
  /\ classifyResult' = "none"
  /\ boolResult' = FALSE
  /\ patternsResult' = NoPatterns
  /\ UNCHANGED <<serviceVars, document, languageId, position, classification, hoverVars, lastIndex,
                 remembered>>

Extract ==
  /\ op' = "extract"
  /\ extractResult' = extract(document, position, DEFAULT_LINE_RANGE)
  /\ rangeResult' = NoRange
  /\ textResult' = NoText
  /\ classifyResult' = "none"
  /\ boolResult' = FALSE
  /\ patternsResult' = NoPatterns
  /\ UNCHANGED <<serviceVars, document, languageId, position, classification, hoverVars, lastIndex,
                 remembered>>

NextExtractor == GetBlockRange \/ ExtractBlock \/ Extract

SpecExtractor == InitExtractor /\ [][NextExtractor]_vars

\* ---------------------------------------------------------------------------
\* The structure detector queried on bounded inputs
\* ---------------------------------------------------------------------------
DetectorLinesTs ==
  {<<"c", "o", "n", "s", "t", " ", "f", " ", "=", " ", "(", ")", " ", "=", ">", " ", "{", "}", ";">>,
   <<"c", "o", "n", "s", "t", " ", "x", " ", "=", " ", "1", ";">>,
   <<" ", " ", "f", "o", "o", "(", ")", ";">>,
   <<>>,
   <<"x", " ", "/", "/", "c">>,
   <<" ", " ", "/", "/", "c">>}

DetectorLinesPy ==
  {<<"x", " ", "#", "c">>,
   <<" ", " ", "#", "c">>,
   <<"x", " ", "=", " ", "1">>,
   <<>>}

DetectorLinesOther ==
  {<<"x", " ", "/", "/", "c">>,
   <<" ", " ", "/", "/", "c">>,
   <<"f", "o", "o", "(", ")", ";">>,
   <<>>}

InitDetector ==
  /\ \/ languageId = "typescript" /\ document \in DocsOver(DetectorLinesTs)
     \/ languageId = "python" /\ document \in DocsOver(DetectorLinesPy)
     \/ languageId = "rust" /\ document \in DocsOver(DetectorLinesOther)
  /\ position \in [line : -1..MaxLines, character : 0..MaxChar]
  /\ classification = "omitted"
  /\ op = "none"
  /\ QueryIdle
  /\ HoverIdle
  /\ RegistryIdle
  /\ ServiceIdle

Classify ==
  /\ op' = "classify"
  /\ classifyResult' = classify(document, languageId, position)
  /\ boolResult' = FALSE
  /\ rangeResult' = NoRange
  /\ textResult' = NoText
  /\ extractResult' = NoExtract
  /\ patternsResult' = NoPatterns
  /\ UNCHANGED <<serviceVars, document, languageId, position, classification, hoverVars, lastIndex,
                 remembered>>

IsComment ==
  /\ op' = "isComment"
  /\ boolResult' = isComment(document, languageId, position)
  /\ lastIndex' = lastIndexAfterIsComment(document, languageId, position)
  /\ classifyResult' = "none"
  /\ rangeResult' = NoRange
  /\ textResult' = NoText
  /\ extractResult' = NoExtract
  /\ patternsResult' = NoPatterns
  /\ UNCHANGED <<serviceVars, document, languageId, position, classification, hoverVars, remembered>>

IsEmptyLineInBlock ==
  /\ op' = "isEmptyLineInBlock"
  /\ boolResult' = isEmptyLineInBlock(document, position)
  /\ classifyResult' = "none"
  /\ rangeResult' = NoRange
  /\ textResult' = NoText
  /\ extractResult' = NoExtract
  /\ patternsResult' = NoPatterns
  /\ UNCHANGED <<serviceVars, document, languageId, position, classification, hoverVars, lastIndex,
                 remembered>>

NextDetector == Classify \/ IsComment \/ IsEmptyLineInBlock

SpecDetector == InitDetector /\ [][NextDetector]_vars

\* ---------------------------------------------------------------------------
\* CacheService
\* ---------------------------------------------------------------------------
\* 30 * 60 * 1000
ttlMs == 1800000

\* The printable ASCII characters in code order, starting at code 32; code 96,
\* which a string of this language cannot hold, is held by its name.
PrintableChars ==
  <<" ", "!", "\"", "#", "$", "%", "&", "'", "(", ")", "*", "+", ",", "-", ".", "/",
   "0", "1", "2", "3", "4", "5", "6", "7", "8", "9", ":", ";", "<", "=", ">", "?", "@",
   "A", "B", "C", "D", "E", "F", "G", "H", "I", "J", "K", "L", "M", "N", "O", "P", "Q",
   "R", "S", "T", "U", "V", "W", "X", "Y", "Z", "[", "\\", "]", "^", "_", "backquote", "a",
   "b", "c", "d", "e", "f", "g", "h", "i", "j", "k", "l", "m", "n", "o", "p", "q", "r",
   "s", "t", "u", "v", "w", "x", "y", "z", "{", "|", "}", "~">>

\* The code of every printable character, as a table.
RECURSIVE codesFrom(_)
codesFrom(k) ==
  IF k = Len(PrintableChars) THEN PrintableChars[k] :> 31 + k
  ELSE (PrintableChars[k] :> 31 + k) @@ codesFrom(k + 1)

PrintableCodes == codesFrom(1)

\* String.prototype.charCodeAt for one character.
charCodeAt(c) ==
  CASE c = "\t" -> 9
    [] c = "\n" -> 10
    [] c = "\f" -> 12
    [] c = "\r" -> 13
    [] OTHER -> PrintableCodes[c]

\* One round of generateKey on a 32-bit value held as two 16-bit halves:
\* hash = ((hash << 5) - hash + char) & 0xffffffff, that is 31 * hash + char mod 2^32.
hashStep(h, char) ==
  [hi |-> (31 * h.hi + ((31 * h.lo + char) \div 65536)) % 65536,
   lo |-> (31 * h.lo + char) % 65536]

RECURSIVE hashFrom(_, _, _)
hashFrom(code, i, h) ==
  IF i > Len(code) THEN h ELSE hashFrom(code, i + 1, hashStep(h, charCodeAt(code[i])))

\* generateKey: the 32-bit hash of the code; String(hash) is one-to-one on it.
generateKey(code) == hashFrom(code, 1, [hi |-> 0, lo |-> 0])

\* What get returns for a missing or expired entry.
NoExplanation == [kind |-> "null", of |-> <<>>]

entriesFor(c, key) == {e \in c : e.key = key}
isExpired(e, t) == t - e.timestamp > ttlMs

\* get once the key is generated.
cacheGetAt(c, key, t) ==
  IF entriesFor(c, key) = {} THEN NoExplanation
  ELSE IF \E e \in entriesFor(c, key) : isExpired(e, t) THEN NoExplanation
  ELSE (CHOOSE e \in entriesFor(c, key) : TRUE).explanation

cacheGet(c, code, t) == cacheGetAt(c, generateKey(code), t)

\* A variant of get that deletes the entry it has read.
cacheAfterGetDropping(c, code, t) == c \ entriesFor(c, generateKey(code))

\* get deletes the entry it finds expired.
cacheAfterGetAt(c, key, t) == c \ {e \in entriesFor(c, key) : isExpired(e, t)}
cacheAfterGet(c, code, t) == cacheAfterGetAt(c, generateKey(code), t)


\* set replaces whatever the key held.
cacheSetAt(c, key, explanation, t) ==
  (c \ entriesFor(c, key)) \cup {[key |-> key, explanation |-> explanation, timestamp |-> t]}
cacheSet(c, code, explanation, t) == cacheSetAt(c, generateKey(code), explanation, t)

cacheDelete(c, code) == c \ entriesFor(c, generateKey(code))

\* ---------------------------------------------------------------------------
\* CodeLensHoverProvider
\* ---------------------------------------------------------------------------
MaxFetches == 2
MaxTicks == 2
MaxHoverLines == 2
MaxRetries == 1

\* The line index of the previous non-blank line, or 0 if none.
RECURSIVE getPreviousNonBlankLine(_, _)
getPreviousNonBlankLine(doc, fromLine) ==
  IF fromLine - 1 < 0 THEN 0
  ELSE IF ~isBlank(lineAt(doc, fromLine - 1)) THEN fromLine - 1
  ELSE getPreviousNonBlankLine(doc, fromLine - 1)

\* getBlockRange, or the hovered line's own range when getBlockRange throws;
\* getBlockRange clamps the line and returns for every document with a line.
getHighlightRange(doc, lang, pos, cls) == getBlockRange(doc, lang, pos, cls)

\* The position provideHover classifies and extracts at.
highlightPositionOf(doc, pos) ==
  IF isBlank(lineAt(doc, pos.line))
  THEN [line |-> getPreviousNonBlankLine(doc, pos.line), character |-> 0]
  ELSE pos

\* The code provideHover hands on: the block for structural, else the trimmed line.
hoverCode(doc, lang, hp, cls) ==
  IF cls = "structural" THEN extractBlock(doc, lang, hp, cls).text
  ELSE extract(doc, hp, DEFAULT_LINE_RANGE).code

\* A variant that forgets the earlier fetch without cancelling it.
forgetPreviousHoverFetch(fs, source) == fs

\* cancelPreviousHoverFetch on the list of fetches.
cancelPreviousHoverFetch(fs, source) ==
  IF source # 0 THEN [fs EXCEPT ![source].cancelled = TRUE] ELSE fs

\* The editors that can show the document; "none" stands for no editor.
Editors == {"left", "right"}

Decoration(editor, range) == [editor |-> editor, range |-> range]

\* editor.setDecorations(decorationType, ranges): the ranges replace what the
\* editor showed for the type.
setDecorations(decorations, editor, ranges) ==
  {d \in decorations : d.editor # editor} \cup {Decoration(editor, r) : r \in ranges}

\* clearDecoration on what the editors show; the decoration type is never
\* null between construction and dispose.
clearDecoration(decorations, lastEditor) ==
  IF lastEditor # "none" THEN setDecorations(decorations, lastEditor, {}) ELSE decorations

\* A variant that sets the new range without clearing the earlier one.
applyDecorationUncleared(decorations, lastEditor, editor, range) ==
  setDecorations(decorations, editor, {range})

\* applyDecoration on what the editors show.
applyDecoration(decorations, lastEditor, editor, range) ==
  setDecorations(clearDecoration(decorations, lastEditor), editor, {range})

\* provideHover returning null before it has extracted any code.
HoverReturnsEarly(pos) ==
  /\ fetches' = cancelPreviousHoverFetch(fetches, hoverCancelSource)
  /\ hoverCancelSource' = 0
  /\ hoverResult' = NullHover
  /\ lastHover' = [NoLastHover EXCEPT !.shownBefore = editorDecorations]
  /\ UNCHANGED <<cache, lastDecoratedRange, lastDecoratedEditor, editorDecorations>>

\* provideHover from the cache lookup on; the editor is the one found showing
\* the document, "none" when there is none.
HoverServe(pos, cls, code, context, highlightRange) ==
  IF Len(code) = 0
  THEN /\ fetches' = cancelPreviousHoverFetch(fetches, hoverCancelSource)
       /\ hoverCancelSource' = 0
       /\ hoverResult' = NullHover
       /\ lastHover' =
            [ran |-> TRUE, classification |-> cls, code |-> code, highlighted |-> FALSE,
             highlightRange |-> highlightRange, shownBefore |-> editorDecorations]
       /\ UNCHANGED <<cache, lastDecoratedRange, lastDecoratedEditor, editorDecorations>>
  ELSE /\ cache' = cacheAfterGet(cache, code, now)
       /\ \E editor \in Editors \cup {"none"} :
            /\ lastHover' =
                 [ran |-> TRUE, classification |-> cls, code |-> code,
                  highlighted |-> editor # "none", highlightRange |-> highlightRange,
                  shownBefore |-> editorDecorations]
            /\ IF editor # "none"
               THEN /\ lastDecoratedRange' = highlightRange
                    /\ lastDecoratedEditor' = editor
                    /\ editorDecorations' =
                         applyDecoration(editorDecorations, lastDecoratedEditor, editor,
                                         highlightRange)
               ELSE UNCHANGED <<lastDecoratedRange, lastDecoratedEditor, editorDecorations>>
       /\ IF cacheGet(cache, code, now) # NoExplanation
          THEN /\ fetches' = cancelPreviousHoverFetch(fetches, hoverCancelSource)
               /\ hoverCancelSource' = 0
               /\ hoverResult' = [shown |-> TRUE, explanation |-> cacheGet(cache, code, now)]
          ELSE /\ fetches' =
                    Append(cancelPreviousHoverFetch(fetches, hoverCancelSource),
                           [code |-> code, context |-> context, hasToken |-> TRUE,
                            cancelled |-> FALSE, settled |-> FALSE])
               /\ hoverCancelSource' = Len(fetches) + 1
               /\ hoverResult' = NullHover

HoverClassified(pos, hp, cls) ==
  HoverServe(pos, cls, hoverCode(document, languageId, hp, cls),
             extract(document, hp, DEFAULT_LINE_RANGE).context,
             getHighlightRange(document, languageId, hp, cls))

HoverAt(pos) ==
  IF isComment(document, languageId, pos) THEN HoverReturnsEarly(pos)
  ELSE IF isBlank(lineAt(document, pos.line)) /\ ~isEmptyLineInBlock(document, pos)
  THEN HoverReturnsEarly(pos)
  ELSE HoverClassified(pos, highlightPositionOf(document, pos),
                       classify(document, languageId, highlightPositionOf(document, pos)))

\* The fetches started by a hover: those that carry a token.
hoverFetches(fs) == SelectSeq(fs, LAMBDA f : f.hasToken)

\* The editor calls provideHover with a position inside the document.
ProvideHover ==
  /\ Len(hoverFetches(fetches)) < MaxFetches
  /\ \E line \in 0..(Len(document) - 1) :
       /\ position' = [line |-> line, character |-> 0]
       /\ HoverAt([line |-> line, character |-> 0])
       /\ lastIndex' = lastIndexAfterIsComment(document, languageId,
                                                [line |-> line, character |-> 0])
  /\ op' = "provideHover"
  /\ UNCHANGED <<serviceVars, document, languageId, classification, rangeResult, textResult,
                 extractResult, classifyResult, boolResult, now, remembered,
                 patternsResult>>

\* What aiService.explain can answer for a code.
Explanation(code) == [kind |-> "explanation", of |-> code]
CachedError(code) == [kind |-> "error", of |-> code]

\* A variant that stores what explain answered whatever the token says.
cacheAfterFetchUnchecked(c, fetch, outcome, t) ==
  IF outcome = "explanation" THEN cacheSet(c, fetch.code, Explanation(fetch.code), t)
  ELSE IF outcome = "error" THEN cacheSet(c, fetch.code, CachedError(fetch.code), t)
  ELSE c

\* The cache fetchExplanation leaves behind once explain has settled.
cacheAfterFetch(c, fetch, outcome, t) ==
  IF fetch.hasToken /\ fetch.cancelled THEN c
  ELSE IF outcome = "explanation" THEN cacheSet(c, fetch.code, Explanation(fetch.code), t)
  ELSE IF outcome = "error" THEN cacheSet(c, fetch.code, CachedError(fetch.code), t)
  ELSE c

\* How the awaited explain call ended, as the operation that ran last.
settledAs(outcome) ==
  CASE outcome = "explanation" -> "fetchResolved"
    [] outcome = "cancelled" -> "fetchAborted"
    [] OTHER -> "fetchThrew"

\* The awaited explain call of fetch i settles: with an explanation, with
\* "Request was cancelled." (abort or timeout), or by throwing.
FetchSettles(i, outcome) ==
  /\ ~fetches[i].settled
  /\ fetches' = [fetches EXCEPT ![i].settled = TRUE]
  /\ cache' = cacheAfterFetch(cache, fetches[i], outcome, now)
  /\ op' = settledAs(outcome)
  /\ UNCHANGED <<registryVars, serviceVars, document, languageId, queryVars, now,
                 hoverCancelSource, lastDecoratedRange, lastDecoratedEditor, editorDecorations>>
  /\ hoverResult' = NullHover /\ lastHover' = NoLastHover

FetchExplanationSettles ==
  \E i \in 1..Len(fetches), outcome \in {"explanation", "cancelled", "error"} :
    FetchSettles(i, outcome)

\* Time passes: Date.now() advances by a little more than half the TTL.
Tick ==
  /\ now < MaxTicks * (ttlMs \div 2 + 1)
  /\ now' = now + (ttlMs \div 2 + 1)
  /\ op' = "tick"
  /\ UNCHANGED <<registryVars, serviceVars, document, languageId, queryVars, cache, fetches,
                 hoverCancelSource, lastDecoratedRange, lastDecoratedEditor, editorDecorations>>
  /\ hoverResult' = NullHover /\ lastHover' = NoLastHover

HoverLines ==
  {<<"i", "f", " ", "(", "a", ")", " ", "{">>,
   <<" ", " ", "f", "o", "o", "(", ")", ";">>,
   <<"f", "o", "o", "(", ")", ";">>,
   <<>>}

InitHover ==
  /\ languageId = "typescript"
  /\ document \in UNION {[1..n -> HoverLines] : n \in 1..MaxHoverLines}
  /\ position = [line |-> 0, character |-> 0]
  /\ classification = "omitted"
  /\ op = "none"
  /\ QueryIdle
  /\ HoverIdle
  /\ RegistryIdle
  /\ ServiceIdle

\* The selection listener: a selection in the decorated editor whose active
\* line leaves the decorated range clears the decoration.
SelectionChanged ==
  /\ \E line \in 0..(Len(document) - 1), editor \in Editors :
       IF lastDecoratedRange = NoRange \/ editor # lastDecoratedEditor
       THEN UNCHANGED <<lastDecoratedRange, lastDecoratedEditor, editorDecorations>>
       ELSE IF line < lastDecoratedRange.startLine \/ line > lastDecoratedRange.endLine
       THEN /\ lastDecoratedRange' = NoRange
            /\ lastDecoratedEditor' = "none"
            /\ editorDecorations' = clearDecoration(editorDecorations, lastDecoratedEditor)
       ELSE UNCHANGED <<lastDecoratedRange, lastDecoratedEditor, editorDecorations>>
  /\ op' = "selectionChanged"
  /\ UNCHANGED <<registryVars, serviceVars, document, languageId, queryVars, cache, now, fetches,
                 hoverCancelSource>>
  /\ hoverResult' = NullHover /\ lastHover' = NoLastHover

\* The editor cancels the token of a hover request: the listener provideHover
\* registered cancels that request's own cancel source.
HoverTokenCancelled ==
  /\ \E i \in 1..Len(fetches) :
       /\ fetches[i].hasToken
       /\ ~fetches[i].settled
       /\ ~fetches[i].cancelled
       /\ fetches' = [fetches EXCEPT ![i].cancelled = TRUE]
  /\ op' = "tokenCancelled"
  /\ UNCHANGED <<registryVars, serviceVars, document, languageId, queryVars, cache, now,
                 hoverCancelSource, lastDecoratedRange, lastDecoratedEditor, editorDecorations>>
  /\ hoverResult' = NullHover /\ lastHover' = NoLastHover

NextHover ==
  \/ ProvideHover
  \/ FetchExplanationSettles
  \/ Tick
  \/ SelectionChanged
  \/ HoverTokenCancelled

SpecHover == InitHover /\ [][NextHover]_vars

\* The provider on one document whose two lines are hovered in any order: the
\* block of line 0 and the call on line 1 are different codes to explain.
InitFetches ==
  /\ languageId = "typescript"
  /\ document = << <<"i", "f", " ", "(", "a", ")", " ", "{">>,
                   <<" ", " ", "f", "o", "o", "(", ")", ";">> >>
  /\ position = [line |-> 0, character |-> 0]
  /\ classification = "omitted"
  /\ op = "none"
  /\ QueryIdle
  /\ HoverIdle
  /\ RegistryIdle
  /\ ServiceIdle

SpecFetches == InitFetches /\ [][NextHover]_vars

\* The fetches whose code a tooltip shows with the Retry link: the code is
\* cached as an error.
retryOffered(c, fs, t) == {i \in 1..Len(fs) : cacheGet(c, fs[i].code, t).kind = "error"}

\* The Retry link of a tooltip runs retryExplanation(code, context): with an
\* active editor it deletes the cached entry and fetches again, without a
\* token; without one it warns and returns.
RetryExplanation ==
  /\ Len(fetches) - Len(hoverFetches(fetches)) < MaxRetries
  /\ \E i \in retryOffered(cache, fetches, now), activeEditor \in BOOLEAN :
       IF activeEditor
       THEN /\ cache' = cacheDelete(cache, fetches[i].code)
            /\ fetches' = Append(fetches, [code |-> fetches[i].code,
                                           context |-> fetches[i].context,
                                           hasToken |-> FALSE, cancelled |-> FALSE,
                                           settled |-> FALSE])
       ELSE UNCHANGED <<cache, fetches>>
  /\ op' = "retryExplanation"
  /\ hoverResult' = NullHover /\ lastHover' = NoLastHover
  /\ UNCHANGED <<registryVars, serviceVars, document, languageId, queryVars, now,
                 hoverCancelSource, lastDecoratedRange, lastDecoratedEditor,
                 editorDecorations>>

NextRetry ==
  \/ ProvideHover
  \/ FetchExplanationSettles
  \/ Tick
  \/ SelectionChanged
  \/ HoverTokenCancelled
  \/ RetryExplanation

\* The provider with its Retry command, on the document of SpecFetches.
SpecRetry == InitFetches /\ [][NextRetry]_vars

\* The explanation service answers the request of fetch i, which is not
\* cancelled, with an explanation.
ServiceAnswers(i) ==
  /\ i \in 1..Len(fetches)
  /\ ~fetches[i].cancelled
  /\ FetchSettles(i, "explanation")

\* The request of fetch i, which is cancelled, ends with the cancellation
\* message.
CancelledFetchEnds(i) ==
  /\ i \in 1..Len(fetches)
  /\ fetches[i].cancelled
  /\ FetchSettles(i, "cancelled")

\* The oldest fetch has settled: its promise is done and nothing refers to it
\* any more.  A cancel source that belonged to it has nothing left to cancel.
FetchForgotten ==
  /\ Len(fetches) > 0
  /\ fetches[1].settled
  /\ fetches' = Tail(fetches)
  /\ hoverCancelSource' = IF hoverCancelSource > 0 THEN hoverCancelSource - 1 ELSE 0
  /\ op' = "fetchForgotten"
  /\ hoverResult' = NullHover /\ lastHover' = NoLastHover
  /\ UNCHANGED <<registryVars, serviceVars, document, languageId, queryVars, cache, now,
                 lastDecoratedRange, lastDecoratedEditor, editorDecorations>>

\* The provider on a one-line document: every hover is on the same code.
InitRehover ==
  /\ languageId = "typescript"
  /\ document = << <<"f", "o", "o", "(", ")", ";">> >>
  /\ position = [line |-> 0, character |-> 0]
  /\ classification = "omitted"
  /\ op = "none"
  /\ QueryIdle
  /\ HoverIdle
  /\ RegistryIdle
  /\ ServiceIdle

NextRehover ==
  \/ ProvideHover
  \/ \E i \in 1..MaxFetches : ServiceAnswers(i)
  \/ \E i \in 1..MaxFetches : CancelledFetchEnds(i)
  \/ FetchForgotten
  \/ SelectionChanged
  \/ Tick

\* provideHover can be called: the document has a line, and the bound on the
\* fetches of hovers is not reached.
hoverPossible == Len(document) > 0 /\ Len(hoverFetches(fetches)) < MaxFetches

\* The user goes on hovering whenever the provider can take a hover (weak
\* fairness of ProvideHover, with its enabling condition written out), the
\* service answers every request that stays uncancelled, a cancelled request
\* ends, and a settled fetch is dropped.
FairRehover ==
  /\ []<>(~hoverPossible) \/ []<><<ProvideHover>>_vars
  /\ \A i \in 1..MaxFetches : WF_vars(ServiceAnswers(i)) /\ WF_vars(CancelledFetchEnds(i))
  /\ WF_vars(FetchForgotten)

SpecRehover == InitRehover /\ [][NextRehover]_vars /\ FairRehover

\* The provider on a document whose block is followed by a comment line.
InitHighlights ==
  /\ languageId = "typescript"
  /\ document = << <<"i", "f", " ", "(", "a", ")", " ", "{">>,
                   <<" ", " ", "f", "o", "o", "(", ")", ";">>,
                   <<"/", "/", " ", "c">> >>
  /\ position = [line |-> 0, character |-> 0]
  /\ classification = "omitted"
  /\ op = "none"
  /\ QueryIdle
  /\ HoverIdle
  /\ RegistryIdle
  /\ ServiceIdle

SpecHighlights == InitHighlights /\ [][NextHover]_vars

\* ---------------------------------------------------------------------------
\* isComment over block comments, doc comments and docstrings
\* ---------------------------------------------------------------------------
\* The last line of a long document lies at most this many lines nearer to or
\* farther from the first line than MAX_BACKWARD_SCAN_LINES.
WindowSlack == 1

CommentLinesTs ==
  {<<"/", "*">>,
   <<"*", "/">>,
   <<"x">>,
   <<"/", "*", "c", "*", "/">>,
   <<" ", "/", "*", "*", " ", "d", " ", "*", "/">>,
   <<"/", "*", " ", "/", "/", " ", "*", "/">>}

CommentLinesPy ==
  {<<"\"", "\"", "\"">>,
   <<"d">>,
   <<"x", " ", "=", " ", "1">>,
   <<"\"", "\"", "\"", "d", "\"", "\"", "\"">>}

CommentLinesOther ==
  {<<"/", "*">>,
   <<"*", "/">>,
   <<"x">>,
   <<"/", "*", "c", "*", "/">>}

\* A first line, then n lines of code, then a last line.
LongDocument(first, n, last) == <<first>> \o [k \in 1..n |-> <<"x">>] \o <<last>>

LongDocuments ==
  {LongDocument(first, n, last) :
     first \in {<<"/", "*">>, <<"x">>},
     n \in (MAX_BACKWARD_SCAN_LINES - WindowSlack - 1)..(MAX_BACKWARD_SCAN_LINES + WindowSlack - 1),
     last \in {<<"x">>, <<"*", "/">>}}

InitComments ==
  /\ \/ /\ languageId = "typescript"
        /\ document \in DocsOver(CommentLinesTs)
        /\ position \in [line : -1..MaxLines, character : 0..MaxChar]
     \/ /\ languageId = "python"
        /\ document \in DocsOver(CommentLinesPy)
        /\ position \in [line : -1..MaxLines, character : 0..MaxChar]
     \/ /\ languageId = "rust"
        /\ document \in DocsOver(CommentLinesOther)
        /\ position \in [line : -1..MaxLines, character : 0..MaxChar]
     \/ /\ languageId = "typescript"
        /\ document \in LongDocuments
        /\ position \in [line : {Len(document) - 1}, character : {0}]
  /\ classification = "omitted"
  /\ op = "none"
  /\ QueryIdle
  /\ HoverIdle
  /\ RegistryIdle
  /\ ServiceIdle

SpecComments == InitComments /\ [][NextDetector]_vars

\* ---------------------------------------------------------------------------
\* The core queried by one caller: every operation, on the same arguments
\* ---------------------------------------------------------------------------
MaxCoreLines == 2

CoreLinesTs ==
  {<<"i", "f", " ", "(", "a", ")", " ", "{">>,
   <<" ", " ", "f", "o", "o", "(", ")", ";">>,
   <<"/", "*">>,
   <<>>}

CoreLinesPy ==
  {<<"i", "f", " ", "a", ":">>,
   <<" ", " ", "x", " ", "=", " ", "1">>,
   <<"\"", "\"", "\"">>}

CoreLinesOther ==
  {<<"f", "o", "o", "(", ")", " ", "{">>,
   <<"/", "*">>}

CoreDocsOver(vocabulary) == UNION {[1..n -> vocabulary] : n \in 0..MaxCoreLines}

InitCore ==
  /\ \/ languageId = "typescript" /\ document \in CoreDocsOver(CoreLinesTs)
     \/ languageId = "python" /\ document \in CoreDocsOver(CoreLinesPy)
     \/ languageId = "rust" /\ document \in CoreDocsOver(CoreLinesOther)
  /\ position \in [line : -1..MaxCoreLines, character : {0}]
  /\ classification \in ClassificationArgs
  /\ op = "none"
  /\ QueryIdle
  /\ HoverIdle
  /\ RegistryIdle
  /\ ServiceIdle

\* The spellings a caller may give the document's language id.
SpellingsOf(id) ==
  CASE id = "typescript" -> {"typescript", "TypeScript"}
    [] id = "python" -> {"python", "PYTHON"}
    [] id = "rust" -> {"rust", "Rust"}
    [] OTHER -> {id}

GetLanguagePatterns ==
  /\ \E id \in SpellingsOf(languageId) :
       patternsResult' = [id |-> id, patterns |-> getLanguagePatterns(id)]
  /\ op' = "getLanguagePatterns"
  /\ rangeResult' = NoRange
  /\ textResult' = NoText
  /\ extractResult' = NoExtract
  /\ classifyResult' = "none"
  /\ boolResult' = FALSE
  /\ UNCHANGED <<serviceVars, document, languageId, position, classification, hoverVars, lastIndex,
                 remembered>>

\* The operations whose answers a caller compares from call to call, and the
\* answer of the one that ran last.
RepeatableOps == {"classify", "isComment", "isEmptyLineInBlock", "getBlockRange", "extractBlock"}

answerOf(o) ==
  CASE o = "classify" -> classifyResult
    [] o \in {"isComment", "isEmptyLineInBlock"} -> boolResult
    [] o = "getBlockRange" -> rangeResult
    [] o = "extractBlock" -> textResult

\* const first = ...: the caller keeps the answer it has just received, to
\* call again later.
Remember ==
  /\ op \in RepeatableOps
  /\ remembered' = [op |-> op, answer |-> answerOf(op)]
  /\ op' = "remember"
  /\ UNCHANGED <<serviceVars, document, languageId, queryVars, hoverVars, lastIndex, patternsResult>>

NextCore ==
  \/ GetBlockRange
  \/ ExtractBlock
  \/ Extract
  \/ Classify
  \/ IsComment
  \/ IsEmptyLineInBlock
  \/ GetLanguagePatterns
  \/ Remember

SpecCore == InitCore /\ [][NextCore]_vars

\* ---------------------------------------------------------------------------
\* Properties of the context extractor (checked under SpecExtractor)
\* ---------------------------------------------------------------------------
LeastOf(S) == CHOOSE x \in S : \A y \in S : x <= y

\* The lines of the document that a range covers, joined with newlines.
textOfRangeLines(doc, r) ==
  joinLines(linesOf(doc, Max(r.startLine, 0), Min(r.endLine, Len(doc) - 1)))

\* Line i exists, is not blank and matches a structural-start pattern of the language.
isStructuralStart(doc, lang, i) ==
  /\ inRange(doc, i)
  /\ ~isBlank(lineAt(doc, i))
  /\ matchAnyPattern(lineAt(doc, i), structuralStartPatterns(lang))

\* C1: for every document, position (in range or not) and classification
\* argument, extractBlock returns exactly the text of the lines
\* startLine..endLine of the range getBlockRange returns for the same
\* arguments, joined with newlines.
C1_ExtractBlockIsTextOfBlockRange ==
  op = "extractBlock" =>
    textResult =
      Text(textOfRangeLines(document,
             getBlockRange(document, languageId, position, classification)))

\* Lines h1 < h2 head two consecutive blocks of equal indentation: both are
\* structural starts, equally indented, and nothing between them is less indented.
SiblingHeaders(doc, lang, h1, h2) ==
  /\ h1 < h2
  /\ isStructuralStart(doc, lang, h1)
  /\ isStructuralStart(doc, lang, h2)
  /\ getIndentation(lineAt(doc, h1)) = getIndentation(lineAt(doc, h2))
  /\ \A j \in (h1 + 1)..(h2 - 1) :
       isBlank(lineAt(doc, j))
       \/ getIndentation(lineAt(doc, j)) >= getIndentation(lineAt(doc, h1))

\* The queried line lies in the first of two sibling blocks headed by h1 and h2.
InFirstSibling(h1, h2) ==
  /\ SiblingHeaders(document, languageId, h1, h2)
  /\ position.line \in h1..(h2 - 1)

StopsBeforeSibling ==
  \A h1, h2 \in 0..(Len(document) - 1) :
    InFirstSibling(h1, h2) => rangeResult.endLine < h2

FirstBodyLine(doc, lang, h, b) ==
  /\ isStructuralStart(doc, lang, h)
  /\ inRange(doc, b)
  /\ h < b
  /\ ~isBlank(lineAt(doc, b))
  /\ \A j \in (h + 1)..(b - 1) : isBlank(lineAt(doc, j))
  /\ getIndentation(lineAt(doc, b)) > getIndentation(lineAt(doc, h))

headerRange(h) ==
  getBlockRange(document, languageId, [line |-> h, character |-> 0], "structural")

\* C3 as stated: for a supported language and a structural header with a
\* body, getBlockRange(header, Structural) and getBlockRange(first body line,
\* Structural) are the same range.
C3_HeaderAndFirstBodyLineAgreeAlways ==
  (op = "getBlockRange" /\ classification = "structural"
   /\ toLowerCase(languageId) \in registryKeys)
    => \A h \in 0..(Len(document) - 1) :
         FirstBodyLine(document, languageId, h, position.line)
           => rangeResult = headerRange(h)

\* C3 amended: the same, provided the first body line itself matches no
\* structural-start pattern of the language.
C3_HeaderAndFirstBodyLineAgree ==
  (op = "getBlockRange" /\ classification = "structural"
   /\ toLowerCase(languageId) \in registryKeys)
    => \A h \in 0..(Len(document) - 1) :
         (FirstBodyLine(document, languageId, h, position.line)
          /\ ~isStructuralStart(document, languageId, position.line))
           => rangeResult = headerRange(h)

\* C3's case: a Structural query on a plain first body line whose header's
\* block runs past it.
C3_Witness ==
  /\ op = "getBlockRange"
  /\ classification = "structural"
  /\ toLowerCase(languageId) \in registryKeys
  /\ \E h \in 0..(Len(document) - 1) :
       /\ FirstBodyLine(document, languageId, h, position.line)
       /\ ~isStructuralStart(document, languageId, position.line)
       /\ rangeResult.startLine = h
       /\ rangeResult.endLine > position.line

\* The lines at or above line p that are no more indented than the effective
\* indentation of p and match a structural-start pattern of the language.
structuralCandidates(doc, lang, p) ==
  {c \in 0..p :
     /\ getIndentation(lineAt(doc, c)) <= effectiveIndentation(doc, p)
     /\ matchAnyPattern(lineAt(doc, c), structuralStartPatterns(lang))}

\* The non-blank lines below line s that are no more indented than s.
structuralTerminators(doc, s) ==
  {t \in (s + 1)..(Len(doc) - 1) :
     /\ ~isBlank(lineAt(doc, t))
     /\ getIndentation(lineAt(doc, t)) <= getIndentation(lineAt(doc, s))}

\* The last line before the first line of T, or the last line of the document.
lastLineBefore(doc, T) == IF T = {} THEN Len(doc) - 1 ELSE LeastOf(T) - 1

\* C5: with classification Structural, whenever some line at or above the
\* queried line is no more indented than the effective indentation and matches
\* a structural-start pattern, getBlockRange starts at the nearest such line
\* and ends at the last line before the first non-blank line below the start
\* that is no more indented than the start (the last document line if none).
C5_StructuralBlockRange ==
  (op = "getBlockRange" /\ classification = "structural"
   /\ inRange(document, position.line)
   /\ structuralCandidates(document, languageId, position.line) # {})
    => /\ rangeResult.startLine =
            MaxOf(structuralCandidates(document, languageId, position.line))
       /\ rangeResult.endLine =
            lastLineBefore(document,
              structuralTerminators(document,
                MaxOf(structuralCandidates(document, languageId, position.line))))

\* C5's case: the block starts above the queried line, skipping a more
\* indented structural start on the way, and ends before a terminating line.
C5_Witness ==
  /\ op = "getBlockRange"
  /\ classification = "structural"
  /\ inRange(document, position.line)
  /\ structuralCandidates(document, languageId, position.line) # {}
  /\ rangeResult.startLine < position.line
  /\ rangeResult.endLine < Len(document) - 1
  /\ \E j \in (rangeResult.startLine + 1)..position.line :
       isStructuralStart(document, languageId, j)

\* The non-blank lines above line p that are less indented than p.
lessIndentedAbove(doc, p) ==
  {a \in 0..(p - 1) :
     /\ ~isBlank(lineAt(doc, a))
     /\ getIndentation(lineAt(doc, a)) < getIndentation(lineAt(doc, p))}

\* The non-blank lines below line p that are less indented than p.
lessIndentedBelow(doc, p) ==
  {b \in (p + 1)..(Len(doc) - 1) :
     /\ ~isBlank(lineAt(doc, b))
     /\ getIndentation(lineAt(doc, b)) < getIndentation(lineAt(doc, p))}

C7_UnknownIsSingleLine ==
  (op = "getBlockRange" /\ classification = "unknown"
   /\ inRange(document, position.line))
    => rangeResult =
         Range(position.line, 0, position.line, Len(lineAt(document, position.line)))

\* ---------------------------------------------------------------------------
\* Properties of the structure detector (checked under SpecDetector)
\* ---------------------------------------------------------------------------
\* The classification patterns of a language, none if the set has no such member.
structuralOf(lang) ==
  IF getPatterns(lang).classification = <<>> THEN <<>>
  ELSE getPatterns(lang).classification[1].structural

simpleOf(lang) ==
  IF getPatterns(lang).classification = <<>> THEN <<>>
  ELSE getPatterns(lang).classification[1].simple

matchesSome(text, patterns) == \E k \in 1..Len(patterns) : RegexTest(patterns[k], text)

\* classify has run on a non-blank line of the document.
ClassifiedNonBlankLine ==
  /\ op = "classify"
  /\ inRange(document, position.line)
  /\ ~isBlank(lineAt(document, position.line))

\* C8: a non-blank in-range line that matches at least one structural and at
\* least one simple pattern of its language is classified Structural.
C8_StructuralBeforeSimple ==
  (/\ ClassifiedNonBlankLine
   /\ matchesSome(lineAt(document, position.line), structuralOf(languageId))
   /\ matchesSome(lineAt(document, position.line), simpleOf(languageId)))
    => classifyResult = "structural"

\* C8's case: classify has answered for a line that matches patterns of both lists.
C8_Witness ==
  /\ ClassifiedNonBlankLine
  /\ matchesSome(lineAt(document, position.line), structuralOf(languageId))
  /\ matchesSome(lineAt(document, position.line), simpleOf(languageId))
  /\ classifyResult = "structural"

\* The non-blank lines strictly above line p.
nonBlankAbove(doc, p) == {a \in 0..(p - 1) : ~isBlank(lineAt(doc, a))}

\* Line p has more leading whitespace than the nearest non-blank line above it.
deeperThanContext(doc, p) ==
  /\ nonBlankAbove(doc, p) # {}
  /\ getLeadingWhitespaceLength(lineAt(doc, p))
       > getLeadingWhitespaceLength(lineAt(doc, MaxOf(nonBlankAbove(doc, p))))

\* C9: for a non-blank in-range line that matches no structural and no simple
\* pattern, classify returns Structural if and only if a non-blank line exists
\* strictly above it and the line has strictly more leading whitespace than
\* the nearest such line; in every other case it returns Unknown.
C9_IndentationFallback ==
  (/\ ClassifiedNonBlankLine
   /\ ~matchesSome(lineAt(document, position.line), structuralOf(languageId))
   /\ ~matchesSome(lineAt(document, position.line), simpleOf(languageId)))
    => classifyResult =
         (IF deeperThanContext(document, position.line) THEN "structural" ELSE "unknown")

\* C9's case: a line without keyword, nested below a blank line and a less
\* indented line, classified Structural by its indentation alone.
C9_Witness ==
  /\ ClassifiedNonBlankLine
  /\ ~matchesSome(lineAt(document, position.line), structuralOf(languageId))
  /\ ~matchesSome(lineAt(document, position.line), simpleOf(languageId))
  /\ position.line >= 2
  /\ isBlank(lineAt(document, position.line - 1))
  /\ deeperThanContext(document, position.line)
  /\ classifyResult = "structural"

\* The single-line comment marker of a language: # for Python, // for the
\* C-style languages and for the generic fallback set.
singleLineMarkerOf(lang) ==
  IF toLowerCase(lang) = "python" THEN litHash ELSE litSlashSlash

\* The column of the first marker on a line, -1 if the line has none.
markerColumn(lang, text) == RegexExec(singleLineMarkerOf(lang), text, 0).index

\* C10: for every language id, also one that resolves to the generic fallback
\* set, if the language's single-line comment marker occurs on the queried
\* line, isComment is true for every position at or after the marker's column
\* and false for every position before it. Stated for the lines the claim is
\* about, those with code before the marker (a trailing comment).
C10_SingleLineMarkerColumn ==
  (/\ op = "isComment"
   /\ inRange(document, position.line)
   /\ markerColumn(languageId, lineAt(document, position.line))
        > getLeadingWhitespaceLength(lineAt(document, position.line)))
    => boolResult =
         (position.character >= markerColumn(languageId, lineAt(document, position.line)))

\* ---------------------------------------------------------------------------
\* Properties of the hover provider (checked under SpecHover)
\* ---------------------------------------------------------------------------
\* A text without the white space and line breaks at its two ends.
RECURSIVE stripped(_)
stripped(text) ==
  IF text = <<>> THEN text
  ELSE IF Head(text) \in SpaceChars \cup {"\n"} THEN stripped(Tail(text))
  ELSE IF text[Len(text)] \in SpaceChars \cup {"\n"}
  THEN stripped(SubSeq(text, 1, Len(text) - 1))
  ELSE text

\* C4: in provideHover, for every hovered position and classification result,
\* the code handed to the explanation service and used as the cache key is the
\* text of exactly the lines that are highlighted for that hover (white space
\* and blank lines at either end aside).
C4_HoverCodeIsHighlightedText ==
  (op = "provideHover" /\ lastHover.ran /\ lastHover.highlighted)
    => /\ lastDecoratedRange = lastHover.highlightRange
       /\ stripped(lastHover.code) = stripped(textOfRangeLines(document, lastDecoratedRange))

\* ---------------------------------------------------------------------------
\* Properties of isComment (checked under SpecComments)
\* ---------------------------------------------------------------------------
\* The comments of a text as a lexer of the language delimits them: a line
\* comment runs from its marker to the end of the line, a block comment from its
\* opening delimiter to the first closing delimiter after it, or to the end of
\* the text when none follows. Indices are those of the joined text, from 1.
startsAt(text, i, w) ==
  w # <<>> /\ i + Len(w) - 1 <= Len(text) /\ \A k \in 1..Len(w) : text[i + k - 1] = w[k]

RECURSIVE findFrom(_, _, _)
findFrom(text, i, w) ==
  IF i > Len(text) THEN 0
  ELSE IF startsAt(text, i, w) THEN i
  ELSE findFrom(text, i + 1, w)

Delimiters(language) ==
  IF language = "python"
  THEN [line |-> <<"#">>, open |-> <<"\"", "\"", "\"">>, close |-> <<"\"", "\"", "\"">>]
  ELSE [line |-> <<"/", "/">>, open |-> <<"/", "*">>, close |-> <<"*", "/">>]

lineCommentSpan(text, i, newline) ==
  [kind |-> "line", first |-> i, last |-> IF newline = 0 THEN Len(text) + 1 ELSE newline,
   closed |-> TRUE]

blockCommentSpan(text, i, d, closing) ==
  [kind |-> "block", first |-> i,
   last |-> IF closing = 0 THEN Len(text) + 1 ELSE closing + Len(d.close) - 1,
   closed |-> closing # 0]

RECURSIVE commentSpans(_, _, _)
commentSpansAfter(text, span, d) == <<span>> \o commentSpans(text, span.last + 1, d)

commentSpans(text, i, d) ==
  IF i > Len(text) THEN <<>>
  ELSE IF startsAt(text, i, d.line)
  THEN commentSpansAfter(text, lineCommentSpan(text, i, findFrom(text, i, <<"\n">>)), d)
  ELSE IF startsAt(text, i, d.open)
  THEN commentSpansAfter(text,
         blockCommentSpan(text, i, d, findFrom(text, i + Len(d.open), d.close)), d)
  ELSE commentSpans(text, i + 1, d)

spansOf(doc, language) == commentSpans(joinLines(doc), 1, Delimiters(language))

\* The offset lies in the span: offsets count from 0, indices from 1.
offsetIn(span, offset) == span.first <= offset + 1 /\ offset + 1 <= span.last

queriedOffset == offsetAt(document, position)

queriedInClosedBlock(spans) ==
  \E k \in 1..Len(spans) :
    spans[k].kind = "block" /\ spans[k].closed /\ offsetIn(spans[k], queriedOffset)

isCommentAnswered ==
  op = "isComment" /\ inRange(document, position.line)
  /\ position.line <= MAX_BACKWARD_SCAN_LINES

\* C11: isComment is true at every offset from the opening delimiter of a block
\* comment to the end of its matching closing delimiter, both lying within the
\* scan window.
C11_TrueInsideClosedBlockComment ==
  (isCommentAnswered /\ languageId # "python"
   /\ queriedInClosedBlock(spansOf(document, languageId)))
    => boolResult = TRUE

\* No character of the queried line, its end included, lies in a comment.
queriedLineIsCode(spans) ==
  \A k \in 1..Len(spans) :
    \A c \in 0..Len(lineAt(document, position.line)) :
      ~offsetIn(spans[k], lineStartOffset(document, position.line) + c)

\* C12: isComment is false at every position outside any comment, and so at
\* every position of a code line below a block or doc comment that is closed,
\* whatever the column of that comment's opening delimiter.
C12_FalseOnCodeLines ==
  (isCommentAnswered /\ languageId # "python"
   /\ queriedLineIsCode(spansOf(document, languageId)))
    => boolResult = FALSE
queriedInBlock(spans) ==
  \E k \in 1..Len(spans) : spans[k].kind = "block" /\ offsetIn(spans[k], queriedOffset)

\* C13: in Python the triple quotes of the scanned window alternate between
\* opening and closing in offset order: isComment is true from the opening
\* triple-quote of a docstring to its closing one, over several lines too, and
\* false on a code line below a docstring that is closed.
C13_TripleQuotesAlternate ==
  (isCommentAnswered /\ languageId = "python")
    => /\ queriedInBlock(spansOf(document, languageId)) => boolResult = TRUE
       /\ queriedLineIsCode(spansOf(document, languageId)) => boolResult = FALSE
\* Some line of the scan window of the queried line opens a comment.
opensComment(text, d) == findFrom(text, 1, d.open) # 0 \/ findFrom(text, 1, d.line) # 0

openingInWindow(d) ==
  \E i \in Max(0, position.line - MAX_BACKWARD_SCAN_LINES)..position.line :
    opensComment(lineAt(document, i), d)

\* C14: isComment looks at the queried line and the 100 lines above it only: a
\* block comment opened farther up, with no comment opening inside the window,
\* does not make it answer true.
C14_ScanWindow ==
  (op = "isComment" /\ inRange(document, position.line)
   /\ ~openingInWindow(Delimiters(languageId)))
    => boolResult = FALSE

\* isComment ran on a line more than 100 lines below an unclosed /*.
C14_Witness ==
  /\ op = "isComment"
  /\ position.line > MAX_BACKWARD_SCAN_LINES
  /\ lineAt(document, 0) = <<"/", "*">>
  /\ inRange(document, position.line)
  /\ ~openingInWindow(Delimiters(languageId))
  /\ boolResult = FALSE
\* ---------------------------------------------------------------------------
\* Properties of isEmptyLineInBlock (checked under SpecDetector)
\* ---------------------------------------------------------------------------
\* The non-blank lines strictly below line p.
nonBlankBelow(doc, p) == {b \in (p + 1)..(Len(doc) - 1) : ~isBlank(lineAt(doc, b))}

\* Line p is blank with a non-blank line above it and one below it.
blankBetweenNeighbours(doc, p) ==
  /\ inRange(doc, p)
  /\ isBlank(lineAt(doc, p))
  /\ nonBlankAbove(doc, p) # {}
  /\ nonBlankBelow(doc, p) # {}

someNeighbourIndented(doc, p) ==
  \/ getLeadingWhitespaceLength(lineAt(doc, MaxOf(nonBlankAbove(doc, p)))) > 0
  \/ getLeadingWhitespaceLength(lineAt(doc, LeastOf(nonBlankBelow(doc, p)))) > 0

outsideDocument == Len(document) = 0 \/ position.line < 0 \/ position.line >= Len(document)

\* The queried position moved to the nearest line of a non-empty document.
clampedPosition ==
  [line |-> IF position.line < 0 THEN 0
            ELSE IF position.line >= Len(document) THEN Len(document) - 1
            ELSE position.line,
   character |-> position.character]

\* C16: on an empty document or a line index outside [0, lineCount) classify
\* returns Unknown, isComment and isEmptyLineInBlock return false, and
\* getBlockRange returns (0,0)-(0,0) for an empty document and otherwise the
\* range of the line index clamped into [0, lineCount - 1].
C16_OutsideDocument ==
  outsideDocument
    => /\ op = "classify" => classifyResult = "unknown"
       /\ op \in {"isComment", "isEmptyLineInBlock"} => boolResult = FALSE
       /\ op = "getBlockRange"
            => rangeResult =
                 IF Len(document) = 0 THEN Range(0, 0, 0, 0)
                 ELSE getBlockRange(document, languageId, clampedPosition, classification)

\* C16's case: getBlockRange asked for the line above the first one of a
\* two-line document, answering the block of line 0.
C16_Witness ==
  /\ op = "getBlockRange"
  /\ position.line = -1
  /\ Len(document) = 2
  /\ rangeResult.startLine = 0
  /\ rangeResult.endLine = 1
\* C17: no operation of the core raises an error, whatever the document, the
\* line index, the language id or the content: each returns a value.
C17_NoOperationThrows ==
  /\ op = "extractBlock" => ~textResult.threw
  /\ op = "extract" => ~extractResult.threw
\* C18: a repeated call of classify, isComment, isEmptyLineInBlock,
\* getBlockRange or extractBlock with the arguments of an earlier call returns
\* a value equal to the earlier one, whatever was queried in between.
C18_RepeatedCallsAgree ==
  (op \in RepeatableOps /\ remembered.op = op) => answerOf(op) = remembered.answer

\* C18's case: isComment, called again after the caller kept its first answer,
\* answers true a second time on the opening line of a block comment, its
\* global expressions having run on that line before.
C18_Witness ==
  /\ op = "isComment"
  /\ remembered.op = "isComment"
  /\ remembered.answer = TRUE
  /\ boolResult = TRUE
  /\ inRange(document, position.line)
  /\ reachesScan(getPatterns(languageId).comments, lineAt(document, position.line))
\* The pattern set dedicated to a language id written in lower case, or the
\* generic one.
patternSetOf(id) ==
  IF id \in {"typescript", "typescriptreact"} THEN buildTypeScriptPatterns
  ELSE IF id \in {"javascript", "javascriptreact"} THEN buildJavaScriptPatterns
  ELSE IF id = "python" THEN buildPythonPatterns
  ELSE buildFallbackPatterns

\* C19: getLanguagePatterns returns a pattern set for every id; spellings of an
\* id that differ in letter case only return the same set, and an id without a
\* dedicated entry returns the generic fallback set.
C19_PatternsByLanguage ==
  op = "getLanguagePatterns"
    => /\ patternsResult.id \in SpellingsOf(languageId)
       /\ patternsResult.patterns = patternSetOf(languageId)

\* C19's case: the set returned for an id spelled with capitals.
C19_Witness ==
  /\ op = "getLanguagePatterns"
  /\ patternsResult.id = "TypeScript"
  /\ patternsResult.patterns = buildTypeScriptPatterns
  /\ patternsResult.patterns # buildFallbackPatterns
\* ---------------------------------------------------------------------------
\* Properties of the hover provider's fetches (checked under SpecFetches)
\* ---------------------------------------------------------------------------
\* C20: when provideHover runs while a fetch started by an earlier hover has
\* not settled yet, that fetch's cancellation token is cancelled by the time
\* the new hover has been processed.
C20_EarlierFetchCancelled ==
  [][op' = "provideHover"
       => \A i \in 1..Len(fetches) : ~fetches[i].settled => fetches'[i].cancelled]_vars

\* C20's case: a second hover has started its own fetch while the first
\* hover's fetch is still in flight, now cancelled.
C20_Witness ==
  /\ op = "provideHover"
  /\ Len(fetches) = 2
  /\ hoverCancelSource = 2
  /\ ~fetches[1].settled
  /\ fetches[1].cancelled
  /\ ~fetches[2].cancelled
\* ---------------------------------------------------------------------------
\* C24: the range of getBlockRange lies in the document around the queried line
\* ---------------------------------------------------------------------------
\* C24: for every non-empty document, position and classification argument
\* the range returned by getBlockRange has 0 <= startLine <= endLine <
\* lineCount and holds the queried line, clamped into [0, lineCount - 1].
C24_RangeHoldsQueriedLine ==
  (op = "getBlockRange" /\ Len(document) > 0)
    => /\ 0 <= rangeResult.startLine
       /\ rangeResult.startLine <= clampedPosition.line
       /\ clampedPosition.line <= rangeResult.endLine
       /\ rangeResult.endLine < Len(document)
\* ---------------------------------------------------------------------------
\* C25: a position inside a multi-line comment and the single-line marker
\* ---------------------------------------------------------------------------
\* The running open-count isComment's replay reaches at the queried offset.
openCountAtQuery ==
  replayStack(scanEvents(document, getPatterns(languageId).comments,
                         Max(0, position.line - MAX_BACKWARD_SCAN_LINES), position.line,
                         queriedOffset),
              queriedOffset)

\* C25: at a position whose running open-count from the block and doc-comment
\* events is above 0, isComment returns true, whether or not a single-line
\* comment marker occurs elsewhere on the queried line.
C25_TrueWhereOpenCountPositive ==
  (op = "isComment" /\ inRange(document, position.line) /\ openCountAtQuery > 0)
    => boolResult = TRUE
\* ---------------------------------------------------------------------------
\* C21, C22: the highlight
\* ---------------------------------------------------------------------------
\* C21: a hover that applies a highlight while an earlier one is shown clears
\* the earlier one, so the editors together show at most one highlighted range
\* at any time: none when the provider remembers none, else the remembered one.
C21_AtMostOneHighlight ==
  /\ Cardinality(editorDecorations) <= 1
  /\ editorDecorations =
       IF lastDecoratedRange = NoRange THEN {}
       ELSE {Decoration(lastDecoratedEditor, lastDecoratedRange)}

\* A hover has applied its highlight while another editor showed the
\* highlight of an earlier hover.
C21_Witness ==
  /\ op = "provideHover"
  /\ lastHover.highlighted
  /\ \E d \in lastHover.shownBefore : d.editor # lastDecoratedEditor
  /\ editorDecorations = {Decoration(lastDecoratedEditor, lastHover.highlightRange)}

\* The line lies outside the range.
lineOutside(range, line) == line < range.startLine \/ line > range.endLine

\* C22: once a highlight is applied, a later hover at a position outside the
\* highlighted range clears that highlight, also when the hover returns
\* nothing because it lands on a comment line.
C22_HoverOutsideClearsHighlight ==
  [][(/\ op' = "provideHover"
      /\ lastDecoratedRange # NoRange
      /\ Decoration(lastDecoratedEditor, lastDecoratedRange) \in editorDecorations
      /\ lineOutside(lastDecoratedRange, position'.line))
       => Decoration(lastDecoratedEditor, lastDecoratedRange) \notin editorDecorations']_vars

\* ---------------------------------------------------------------------------
\* C23, C26, C27, C28: background fetches and the cache
\* ---------------------------------------------------------------------------
fetchSettled == op \in {"fetchResolved", "fetchAborted", "fetchThrew"}

\* Fetch i settles in this step.
settlesNow(i) == ~fetches[i].settled /\ fetches'[i].settled

\* C26: a background fetch whose cancellation token has been cancelled never
\* writes to the cache, neither an explanation nor an error message, whether
\* explain returns a result or raises an error.
C26_CancelledFetchNeverCaches ==
  [][\A i \in 1..Len(fetches) :
       (settlesNow(i) /\ fetches[i].hasToken /\ fetches[i].cancelled) => cache' = cache]_vars

\* The one fetch there is was cancelled, its explain call has then raised an
\* error, and nothing is cached.
C26_Witness ==
  /\ op = "fetchThrew"
  /\ Len(fetches) = 1
  /\ fetches[1].hasToken /\ fetches[1].cancelled /\ fetches[1].settled
  /\ cache = {}

\* The fetches that are running and not cancelled.
runningUncancelled == {i \in 1..Len(fetches) : ~fetches[i].settled /\ ~fetches[i].cancelled}

\* C27: at any time at most one fetch started by the provider is in flight
\* uncancelled: starting a fetch, by a hover or by a retry, never leaves an
\* earlier fetch running uncancelled.
C27_OneFetchInFlight == Cardinality(runningUncancelled) <= 1

\* The cache holds this explanation for the code, stored no longer ago than
\* the lifetime of an entry.
cachedAlive(c, code, explanation, t) ==
  \E e \in c : /\ e.key = generateKey(code)
               /\ e.explanation = explanation
               /\ t - e.timestamp <= ttlMs

\* A hover that got as far as the cache lookup, for a code the cache does not
\* hold alive: it returns no tooltip and starts a fetch for the code.
hoverMissStartsFetch ==
  (/\ op' = "provideHover" /\ lastHover'.ran /\ Len(lastHover'.code) > 0
   /\ ~\E x \in {Explanation(lastHover'.code), CachedError(lastHover'.code)} :
         cachedAlive(cache, lastHover'.code, x, now))
    => /\ hoverResult' = NullHover
       /\ Len(fetches') = Len(fetches) + 1
       /\ fetches'[Len(fetches')].code = lastHover'.code
       /\ ~fetches'[Len(fetches')].settled /\ ~fetches'[Len(fetches')].cancelled

\* A fetch that completes uncancelled with a result leaves the result cached.
settledResultIsCached ==
  \A i \in 1..Len(fetches) :
    (settlesNow(i) /\ ~fetches[i].cancelled)
      => /\ op' = "fetchResolved"
            => cachedAlive(cache', fetches[i].code, Explanation(fetches[i].code), now')
         /\ op' = "fetchThrew"
            => cachedAlive(cache', fetches[i].code, CachedError(fetches[i].code), now')

\* A cached result stays until its lifetime is over or a newer result for the
\* same key replaces it.
cachedResultStays ==
  \A e \in cache :
    \/ e \in cache'
    \/ now - e.timestamp > ttlMs
    \/ \E f \in cache' : f.key = e.key /\ f.timestamp >= e.timestamp

\* A hover on a code whose result is cached alive returns a tooltip with it.
hoverShowsCached ==
  \A x \in {Explanation(lastHover'.code), CachedError(lastHover'.code)} :
    (/\ op' = "provideHover" /\ lastHover'.ran /\ Len(lastHover'.code) > 0
     /\ cachedAlive(cache, lastHover'.code, x, now))
      => hoverResult' = [shown |-> TRUE, explanation |-> x]

hoverReturnsExplanation ==
  /\ op = "provideHover"
  /\ hoverResult = [shown |-> TRUE, explanation |-> Explanation(lastHover.code)]

\* C28: when the user hovers again and again over the same uncached code,
\* with any timing between the hovers, and the service answers every request
\* that is not cancelled, then eventually the explanation is cached and a
\* hover returns it.
C28_RehoverEventuallyExplains == <>hoverReturnsExplanation
\* ---------------------------------------------------------------------------
\* CacheService called directly
\* ---------------------------------------------------------------------------
MaxGets == 2

\* Codes to explain: two that generateKey maps to one key, and two others.
CacheCodes == {<<"A", "a">>, <<"B", "B">>, <<"x">>, <<"y", "z">>}

\* get(code): a missing or expired entry counts a miss, a live one a hit.
CacheGet ==
  /\ hits + misses < MaxGets
  /\ \E code \in CacheCodes :
       /\ cacheResult' = [code |-> code, value |-> cacheGet(cache, code, now)]
       /\ cache' = cacheAfterGet(cache, code, now)
       /\ IF cacheGet(cache, code, now) = NoExplanation
            THEN misses' = misses + 1 /\ hits' = hits
            ELSE hits' = hits + 1 /\ misses' = misses
  /\ op' = "cacheGet"
  /\ UNCHANGED <<document, languageId, queryVars, registryVars, now, fetches,
                 hoverCancelSource, lastDecoratedRange, lastDecoratedEditor,
                 editorDecorations, hoverResult, lastHover, quotaRecord, quotaClock,
                 quotaCalls, quotaReply, quotaGranted>>

\* set(code, explanation) with the explanation the service gave for that code.
CacheSet ==
  /\ \E code \in CacheCodes : cache' = cacheSet(cache, code, Explanation(code), now)
  /\ op' = "cacheSet"
  /\ cacheResult' = NoCacheResult
  /\ UNCHANGED <<document, languageId, queryVars, registryVars, now, fetches,
                 hoverCancelSource, lastDecoratedRange, lastDecoratedEditor,
                 editorDecorations, hoverResult, lastHover, hits, misses, quotaRecord,
                 quotaClock, quotaCalls, quotaReply, quotaGranted>>

\* delete(code)
CacheDelete ==
  /\ \E code \in CacheCodes : cache' = cacheDelete(cache, code)
  /\ op' = "cacheDelete"
  /\ cacheResult' = NoCacheResult
  /\ UNCHANGED <<document, languageId, queryVars, registryVars, now, fetches,
                 hoverCancelSource, lastDecoratedRange, lastDecoratedEditor,
                 editorDecorations, hoverResult, lastHover, hits, misses, quotaRecord,
                 quotaClock, quotaCalls, quotaReply, quotaGranted>>

\* clear()
CacheClear ==
  /\ cache' = {}
  /\ hits' = 0
  /\ misses' = 0
  /\ op' = "cacheClear"
  /\ cacheResult' = NoCacheResult
  /\ UNCHANGED <<document, languageId, queryVars, registryVars, now, fetches,
                 hoverCancelSource, lastDecoratedRange, lastDecoratedEditor,
                 editorDecorations, hoverResult, lastHover, quotaRecord, quotaClock,
                 quotaCalls, quotaReply, quotaGranted>>

InitCache ==
  /\ languageId = "typescript"
  /\ document = <<>>
  /\ position = [line |-> 0, character |-> 0]
  /\ classification = "omitted"
  /\ op = "none"
  /\ QueryIdle
  /\ HoverIdle
  /\ RegistryIdle
  /\ ServiceIdle

NextCache == CacheGet \/ CacheSet \/ CacheDelete \/ CacheClear \/ Tick

SpecCache == InitCache /\ [][NextCache]_vars

\* C29: whatever CacheService.get(code) returns, other than null, is the
\* explanation that set stored for that identical code string; a different
\* code string never reads, and never has overwritten, the entry of this one.
C29_GetReturnsOwnExplanation ==
  (op = "cacheGet" /\ cacheResult.value # NoExplanation)
    => cacheResult.value = Explanation(cacheResult.code)
\* ---------------------------------------------------------------------------
\* quotaManager: checkAndConsumeQuota for one device
\* ---------------------------------------------------------------------------
MaxCallers == 2
MaxQuotaTicks == 3

QUOTA_LIMIT == 200

\* 24 * 60 * 60
ttlSeconds == 86400

\* The backend's clock advances in steps of half a window; times are counted
\* from the start of the behaviour.
QuotaStep == (ttlSeconds * 1000) \div 2

\* GET key: the record, unless the expiry SETEX gave the key has passed.
redisGet(record, clock) ==
  IF record.exists /\ clock < record.expiresAt THEN record ELSE NoQuotaRecord

\* SETEX key seconds value, executed at clock.
redisSetex(count, windowStart, resetAt, seconds, clock) ==
  [exists |-> TRUE, count |-> count, windowStart |-> windowStart, resetAt |-> resetAt,
   expiresAt |-> clock + seconds * 1000]

\* math.ceil(ms / 1000) for ms > 0
ceilSeconds(ms) == (ms + 999) \div 1000

QuotaExceeded == [kind |-> "QUOTA_EXCEEDED", count |-> 0, now |-> 0]
Granted(record, callNow) == [kind |-> "record", count |-> record.count, now |-> callNow]

\* A variant of the script that increments without looking at the limit.
luaConsumeUnlimited(record, callNow, limit, ttl_seconds, clock) ==
  LET quota == redisGet(record, clock)
      fresh == redisSetex(1, callNow, callNow + ttl_seconds * 1000, ttl_seconds, clock)
      updated == redisSetex(quota.count + 1, quota.windowStart, quota.resetAt,
                            ceilSeconds(quota.resetAt - callNow), clock)
  IN  IF ~quota.exists \/ callNow >= quota.resetAt
        THEN [record |-> fresh, reply |-> Granted(fresh, callNow)]
        ELSE [record |-> updated, reply |-> Granted(updated, callNow)]

\* LUA_CHECK_AND_CONSUME, run by Redis as one step at clock: what the key holds
\* afterwards and what the script replies.
luaCheckAndConsume(record, callNow, limit, ttl_seconds, clock) ==
  LET quota == redisGet(record, clock)
      fresh == redisSetex(1, callNow, callNow + ttl_seconds * 1000, ttl_seconds, clock)
      updated == redisSetex(quota.count + 1, quota.windowStart, quota.resetAt,
                            ceilSeconds(quota.resetAt - callNow), clock)
  IN  IF ~quota.exists THEN [record |-> fresh, reply |-> Granted(fresh, callNow)]
      ELSE IF callNow >= quota.resetAt THEN [record |-> fresh, reply |-> Granted(fresh, callNow)]
      ELSE IF quota.count >= limit
        THEN [record |-> record, reply |-> [QuotaExceeded EXCEPT !.now = callNow]]
      ELSE [record |-> updated, reply |-> Granted(updated, callNow)]

\* The call finds a window it counts in: a stored record whose resetAt is
\* after the call's now.
inWindow(record, callNow, clock) ==
  redisGet(record, clock).exists /\ callNow < redisGet(record, clock).resetAt

quotaIdleRest ==
  UNCHANGED <<document, languageId, queryVars, registryVars, hoverVars, cacheResult, hits,
              misses>>

\* checkAndConsumeQuota up to its await: now = Date.now() is read, and the
\* EVAL is on its way to Redis.
CheckAndConsumeQuota ==
  /\ Len(quotaCalls) < MaxCallers
  /\ quotaCalls' = Append(quotaCalls, quotaClock)
  /\ quotaReply' = NoQuotaReply
  /\ op' = "checkAndConsumeQuota"
  /\ UNCHANGED <<quotaRecord, quotaClock, quotaGranted>>
  /\ quotaIdleRest

\* The rest of a sequence once element i is taken out.
without(seq, i) == SubSeq(seq, 1, i - 1) \o SubSeq(seq, i + 1, Len(seq))

\* Redis runs the script of one of the calls on their way, in any order.
ScriptRuns ==
  /\ \E i \in 1..Len(quotaCalls) :
       LET ran == luaCheckAndConsume(quotaRecord, quotaCalls[i], QUOTA_LIMIT, ttlSeconds,
                                     quotaClock)
       IN  /\ quotaRecord' = ran.record
           /\ quotaReply' = ran.reply
           /\ quotaGranted' =
                IF ran.reply.kind = "QUOTA_EXCEEDED" THEN quotaGranted
                ELSE IF inWindow(quotaRecord, quotaCalls[i], quotaClock) THEN quotaGranted + 1
                ELSE 1
           /\ quotaCalls' = without(quotaCalls, i)
  /\ op' = "scriptRuns"
  /\ UNCHANGED quotaClock
  /\ quotaIdleRest

\* Redis cannot be reached: the call throws 'Quota service unavailable'.
RedisUnavailable ==
  /\ \E i \in 1..Len(quotaCalls) : quotaCalls' = without(quotaCalls, i)
  /\ quotaReply' = [kind |-> "unavailable", count |-> 0, now |-> 0]
  /\ op' = "redisUnavailable"
  /\ UNCHANGED <<quotaRecord, quotaClock, quotaGranted>>
  /\ quotaIdleRest

QuotaTick ==
  /\ quotaClock < MaxQuotaTicks * QuotaStep
  /\ quotaClock' = quotaClock + QuotaStep
  /\ quotaReply' = NoQuotaReply
  /\ op' = "quotaTick"
  /\ UNCHANGED <<quotaRecord, quotaCalls, quotaGranted>>
  /\ quotaIdleRest

InitQuota ==
  /\ languageId = "typescript"
  /\ document = <<>>
  /\ position = [line |-> 0, character |-> 0]
  /\ classification = "omitted"
  /\ op = "none"
  /\ QueryIdle
  /\ HoverIdle
  /\ RegistryIdle
  /\ ServiceIdle

NextQuota == CheckAndConsumeQuota \/ ScriptRuns \/ RedisUnavailable \/ QuotaTick

SpecQuota == InitQuota /\ [][NextQuota]_vars

\* The script ran in this step, for a call that read callNow.
scriptRan == op' = "scriptRuns"

\* The count the call's window held when the script ran: 0 for a new window.
countBefore ==
  IF inWindow(quotaRecord, quotaReply'.now, quotaClock)
    THEN redisGet(quotaRecord, quotaClock).count ELSE 0

\* C30: in every interleaving of checkAndConsumeQuota calls for one device,
\* a successful call raises the stored count of its window by exactly one,
\* the stored count is the number of calls the window granted and is never
\* above 200, and a call whose script finds the count at 200 in a window whose
\* resetAt is after the call's now fails with QUOTA_EXCEEDED and leaves the
\* record as it is.
C30_QuotaCountedOnceAndCapped ==
  [][/\ ((scriptRan /\ quotaReply'.kind = "record")
           => (/\ quotaRecord'.count = countBefore + 1
               /\ quotaReply'.count = quotaRecord'.count))
      /\ quotaRecord'.count = quotaGranted'
      /\ quotaRecord'.count <= QUOTA_LIMIT
      /\ ((scriptRan /\ countBefore >= QUOTA_LIMIT)
           => (/\ quotaReply'.kind = "QUOTA_EXCEEDED"
               /\ quotaRecord' = quotaRecord))]_vars

\* A call was refused at a full window while another call was on its way.
C30_Witness ==
  /\ op = "scriptRuns"
  /\ quotaReply.kind = "QUOTA_EXCEEDED"
  /\ quotaRecord.count = QUOTA_LIMIT
  /\ quotaGranted = QUOTA_LIMIT
  /\ Len(quotaCalls) > 0
  /\ quotaClock > quotaReply.now

====
